---- MODULE Spec2Model ----
(***************************************************************************)
(* Backuper (mare5x/Backuper): the transfer queue of backuper/_loader.py   *)
(* (start_queue, _queue_worker, _Queue.drain, wait_for_queue) and the      *)
(* three-way download decision of backuper/filecrawler.py                  *)
(* (DriveFileCrawler.is_for_download).                                     *)
(*                                                                         *)
(* QueueSpec / QueueFairSpec : the queue, its workers, producers, waiter.  *)
(* DiffSpec                  : is_for_download over every bounded input.   *)
(***************************************************************************)
EXTENDS Integers, Sequences, FiniteSets, TLC

\* ------------------------------------------------------------- bounds
\* Largest n_threads a queue is started with.
MaxThreads == 2
\* Number of items the producers put on one queue.
MaxItems == 2
\* Number of wait_for_queue calls the caller makes on one queue.
MaxWaits == 2
\* Content hashes 1..NumHashes.
NumHashes == 3
\* Timestamps 1..MaxTime.
MaxTime == 2

\* GoogleDrive.delete calls in one run of the retry model.
MaxDeletes == 2
\* Changes the remote store's change feed can hold.
MaxFeed == 2
\* Polls of the change feed in one run.
MaxPolls == 2
\* Changes per page of changes().list (pageSize).
PageSize == 1
\* Calls of upload_file beside a local writer.
MaxUploads == 2

\* ------------------------------------------------------------- values
\* The sentinel (poison pill) wait_for_queue puts: Python's None.
None == 0
\* The absent attribute / absent optional argument.
NoException == 0
\* The caller's thread ("main") and a second producer thread.
Producers == {"main", "other"}
ThreadIds == 1..MaxThreads
ItemIds == 1..MaxItems

VARIABLES
    \* ---- _loader.py: the _Queue object
    queue,            \* queue.Queue's deque: items in FIFO order, None = sentinel
    unfinished_tasks, \* queue.Queue.unfinished_tasks (put +1, task_done -1)
    exception,        \* the attribute q.exception (NoException while unset)
    n_threads,        \* the attribute q.n_threads
    \* ---- the worker threads running _queue_worker
    wpc,              \* position of each worker in _queue_worker
    witem,            \* the local variable 'item' of each worker (None once dead)
    \* ---- the caller of wait_for_queue
    waitPc,           \* position of the caller in wait_for_queue
    stop,             \* the argument 'stop' of the current call
    waitExc,          \* the local variable 'exception' of wait_for_queue
    sentI,            \* the loop counter of 'for _ in range(q.n_threads)'
    nWaits,           \* number of wait_for_queue calls made so far
    nextItem,         \* number of items put so far (items are 1..nextItem)
    \* ---- observations of the run (history)
    calls,            \* calls[i]: how many times fn(i) was called
    fnState,          \* fnState[i]: "none" | "running" | "returned" | "raised"
    discarded,        \* items removed by drain()
    beforeCall,       \* items put before the current wait_for_queue call began
    afterWait,        \* items put after a wait_for_queue(stop=False) had returned
    failsAtRead,      \* Len(failures) when wait_for_queue read q.exception
    failures,         \* the items whose fn raised, in the order they raised
    lateCalls,        \* items dequeued by a worker's get after a failure
    consumed,         \* consumed[w]: sentinels worker w dequeued with get
    sentinels,        \* sentinels put so far by wait_for_queue
    raisedExc,        \* the exception wait_for_queue raised to the caller
    \* ---- database.py, settings.py and the local file system
    archive,          \* the DriveArchive table: a set of rows
    blacklisted_paths,\* Settings.blacklisted_paths
    blacklisted_rules,\* Settings.blacklisted_rules, as the basenames they match
    disk,             \* the local files: path -> NoFile or [md5, mtime]
    \* ---- filecrawler.py: one call of DriveFileCrawler.is_for_download
    file_id,          \* argument: the remote id
    file_md5,         \* argument: the remote content hash
    remote_time,      \* argument: the remote modification time, or NoTime
    diffPc,           \* "ready" before the call, "returned" after it
    decision,         \* the flag the call returned
    hashed,           \* whether the call read the local file (ft.md5sum)
    \* ---- database.py / uploader.py: two threads recording into the store
    upc,              \* position of each thread in its current call
    uop,              \* the call each thread last made
    uPath,            \* its argument 'path' (entry)
    uId,              \* its argument 'drive_id', or the folder id it created
    uMd5,             \* its argument 'md5sum'
    uResult,          \* how the call ended: "none" | "ok" | "IntegrityError"
    hadRow,           \* threads whose call began with a row on one of its keys
    raced,            \* the two threads were inside calls for the same path
    \* ---- a run of transfers
    remoteDone,       \* items whose remote upload/download call has returned
    archive0,         \* the store as it was before the run
    disk0,            \* the local files as they were before the run
    \* ---- backuper.py: download_changes / full_download_sync
    dlPc,             \* position of the caller in the download flow
    flow,             \* "download_changes" | "full_download_sync"
    dry_run,          \* the argument dry_run
    poll,             \* the changes the crawler's generator has yet to look at
    sync_decision,    \* obj.sync_decision of each change looked at
    yielded,          \* the changes the generator has yielded
    conflicts,        \* the local list 'conflicts'
    dlPath,           \* get_dl_path(obj), then the path it was enqueued with
    enqueued,         \* the changes put on the download queue
    download_token,   \* data_file last_download_change_token
    last_download_sync_time, \* data_file last_download_sync_time
    \* ---- backuper.py: handle_download_conflicts
    hcIdx,            \* the index of 'for obj, path in conflicts'
    resolved,         \* the list 'resolved'
    rejected,         \* the list 'rejected'
    accept_all,       \* the flag accept_all
    reject_all,       \* the flag reject_all
    accept_all_nonconflict, \* the flag accept_all_nonconflict
    hq,               \* the local variable q of the last pass
    bulkFrom,         \* index of the item at which a bulk choice was typed
    \* ---- backuper.py: the removed-items flows
    rmPc,             \* position of the caller in the removed-items flow
    rmFlow,           \* "list" | "blacklist" | "remove_db"
    removedIds,       \* removed ids get_last_removed has yet to yield
    reported,         \* the removed ids the poll reported
    processed,        \* paths the loop body has blacklisted and deleted
    removed_token,    \* data_file last_removed_change_token
    data_blacklisted_paths, \* data_file blacklisted_paths
    \* ---- settings.py: one call of is_blacklisted / is_blacklisted_parent
    bpOp,             \* the method called
    bpPath,           \* argument: path
    bpStop,           \* argument: stop
    bpCur,            \* 'path' of the innermost recursive call
    bpDepth,          \* how many times the method has called itself
    bpPc,             \* "ready" | "recursing" | "returned"
    bpResult,         \* what the call returned
    \* ---- googledrive.py: one call through handle_http_error, and delete
    rtPc,             \* "loop" | "returned" | "raised"
    attempt,          \* the loop variable 'attempt'
    invocations,      \* how many times func was invoked
    errors,           \* the statuses of the HttpErrors func raised, in order
    slept,            \* the arguments of time.sleep, in order
    rtResult,         \* "none" | "value" | "None" | "raised"
    raisedError,      \* the status of the error raised to the caller
    silent,           \* the decorator argument silent
    ignore,           \* the decorator argument ignore
    gdFiles,          \* the ids that exist in the remote store
    deletes,          \* the GoogleDrive.delete calls made, in order
    \* ---- backuper.py: list_upload_changes, upload_changes, mirror
    upPc,             \* position of the caller in the upload flow
    upFlow,           \* "list_upload_changes" | "upload_changes" | "mirror"
    upRun,            \* 1 in the run itself, 2 in the crawl of a later run
    walkTodo,         \* the directories os.walk has yet to visit
    visited,          \* the directories os.walk has visited (as 'root')
    tested,           \* the paths is_blacklisted was called with
    syncTested,       \* the paths is_for_sync was called with
    walkYield,        \* the paths the walks yielded
    sent,             \* the folders and files sent to the remote store
    gdDeleted,        \* the ids mirror deleted from the remote store
    \* ---- filecrawler.py / googledrive.py: polls of the remote change feed
    feed,             \* the changes of the remote store, in order
    pollKind,         \* "download" (get_changes_to_download) | "removed"
    pollUpdate,       \* the argument update_token
    pollPc,           \* "off" | "idle" | "fetch" | "iterate" | "token"
    pollRun,          \* how many polls have completed
    stored_token,     \* data_file last_*_change_token (-1: none yet)
    page_token,       \* get_changes: the local page_token
    page,             \* the changes of the fetched page not yet looked at
    lastPage,         \* the fetched page came with newStartPageToken
    listEnd,          \* the length of the feed when the last page was read
    pollYield,        \* the changes the polls yielded
    last_sync,        \* data_file last_download_sync_time, in half seconds
    \* ---- uploader.py: an upload_file call next to a local writer
    uploaded          \* the content google.upload_file sent for each file

objVars == <<queue, unfinished_tasks, exception, n_threads>>
workerVars == <<wpc, witem>>
waitVars == <<waitPc, stop, waitExc, sentI, nWaits>>
queueVars == <<objVars, workerVars, waitVars, nextItem>>
histVars == <<calls, fnState, discarded, beforeCall, afterWait, failsAtRead,
              failures, lateCalls, consumed, sentinels, raisedExc>>
diffVars == <<archive, blacklisted_paths, blacklisted_rules, disk, file_id,
              file_md5, remote_time, diffPc, decision, hashed>>
storeVars == <<upc, uop, uPath, uId, uMd5, uResult, hadRow, raced>>
runVars == <<remoteDone, archive0, disk0>>
resolverVars == <<hcIdx, resolved, rejected, accept_all, reject_all,
                  accept_all_nonconflict, hq, bulkFrom>>
dlVars == <<dlPc, flow, dry_run, poll, sync_decision, yielded, conflicts,
            dlPath, enqueued, download_token, last_download_sync_time,
            resolverVars>>
rmVars == <<rmPc, rmFlow, removedIds, reported, processed, removed_token,
            data_blacklisted_paths>>
blVars == <<bpOp, bpPath, bpStop, bpCur, bpDepth, bpPc, bpResult>>
retryVars == <<rtPc, attempt, invocations, errors, slept, rtResult,
               raisedError, silent, ignore, gdFiles, deletes>>
upVars == <<upPc, upFlow, upRun, walkTodo, visited, tested, syncTested,
            walkYield, sent, gdDeleted>>
callVars == <<blVars, retryVars, upVars>>
pollVars == <<feed, pollKind, pollUpdate, pollPc, pollRun, stored_token,
              page_token, page, lastPage, listEnd, pollYield, last_sync>>
lateVars == <<pollVars, uploaded>>
syncVars == <<storeVars, runVars, dlVars, rmVars, callVars, lateVars>>
vars == <<queueVars, histVars, diffVars, syncVars>>

\* ============================================================ _loader.py

Workers == 1..n_threads

\* queue.Queue.put: append and count the task, under the queue's mutex.
q_put(item) ==
    /\ queue' = Append(queue, item)
    /\ unfinished_tasks' = unfinished_tasks + 1

\* queue.Queue.task_done: one task fewer (join wakes when it reaches 0).
q_task_done ==
    /\ unfinished_tasks > 0
    /\ unfinished_tasks' = unfinished_tasks - 1

\* A join that only waits for the queue to be empty ("queue empty" instead of
\* "every dequeued item's processing has completed").
q_join_until_empty == queue = <<>>

\* queue.Queue.join: blocks while unfinished_tasks is not 0.
q_join == unfinished_tasks = 0

\* What start_queue leaves: an empty queue, n workers about to call q.get().
start_queue(n) ==
    /\ queue = <<>>
    /\ unfinished_tasks = 0
    /\ exception = NoException
    /\ n_threads = n
    /\ wpc = [w \in ThreadIds |-> IF w <= n THEN "get" ELSE "absent"]
    /\ witem = [w \in ThreadIds |-> None]

\* A producer's q.put(item). The caller's own thread puts only while it is
\* not inside wait_for_queue; nobody puts once the queue was stopped.
Put(p) ==
    /\ nextItem < MaxItems
    /\ p = "main" => waitPc = "idle"
    /\ waitPc \notin {"stopped", "raised"}
    /\ q_put(nextItem + 1)
    /\ nextItem' = nextItem + 1
    /\ afterWait' = IF nWaits > 0 /\ waitPc = "idle"
                      THEN afterWait \cup {nextItem + 1} ELSE afterWait
    /\ UNCHANGED <<exception, n_threads, workerVars, waitVars, calls, fnState,
                   discarded, beforeCall, failsAtRead, failures, lateCalls,
                   consumed, sentinels, raisedExc, diffVars, syncVars>>

\* _queue_worker: item = q.get(); a sentinel leads to task_done and break,
\* any other item to fn(item). q.get() hands the head of the queue to one of
\* the workers blocked in get; these run the same code and hold no state of
\* their own, so the lowest-numbered of them stands for whichever wakes.
Get(w) ==
    /\ wpc[w] = "get"
    /\ \A v \in 1..(w - 1) : wpc[v] # "get"
    /\ queue # <<>>
    /\ LET item == Head(queue) IN
        /\ queue' = Tail(queue)
        /\ witem' = [witem EXCEPT ![w] = item]
        /\ IF item = None
             THEN /\ wpc' = [wpc EXCEPT ![w] = "sentinel"]
                  /\ consumed' = [consumed EXCEPT ![w] = @ + 1]
                  /\ UNCHANGED <<calls, fnState, lateCalls>>
             ELSE /\ wpc' = [wpc EXCEPT ![w] = "fn"]
                  /\ calls' = [calls EXCEPT ![item] = @ + 1]
                  /\ fnState' = [fnState EXCEPT ![item] = "running"]
                  /\ lateCalls' = IF failures # <<>>
                                    THEN lateCalls \cup {item} ELSE lateCalls
                  /\ UNCHANGED consumed
    /\ UNCHANGED <<unfinished_tasks, exception, n_threads, waitVars, nextItem,
                   discarded, beforeCall, afterWait, failsAtRead, failures,
                   sentinels, raisedExc, diffVars, syncVars>>

\* _queue_worker: 'if item is None: q.task_done(); break'.
SentinelDone(w) ==
    /\ wpc[w] = "sentinel"
    /\ q_task_done
    /\ wpc' = [wpc EXCEPT ![w] = "exited"]
    /\ witem' = [witem EXCEPT ![w] = None]
    /\ UNCHANGED <<queue, exception, n_threads, waitVars, nextItem, histVars,
                   diffVars, syncVars>>

\* _queue_worker: fn(item) returns.
FnReturn(w) ==
    /\ wpc[w] = "fn"
    /\ wpc' = [wpc EXCEPT ![w] = "task_done"]
    /\ fnState' = [fnState EXCEPT ![witem[w]] = "returned"]
    /\ UNCHANGED <<objVars, witem, waitVars, nextItem, calls, discarded,
                   beforeCall, afterWait, failsAtRead, failures, lateCalls,
                   consumed, sentinels, raisedExc, diffVars, syncVars>>

\* _queue_worker: the final q.task_done() of the loop body, then q.get() again.
TaskDone(w) ==
    /\ wpc[w] = "task_done"
    /\ q_task_done
    /\ wpc' = [wpc EXCEPT ![w] = "get"]
    /\ witem' = [witem EXCEPT ![w] = None]
    /\ UNCHANGED <<queue, exception, n_threads, waitVars, nextItem, histVars,
                   diffVars, syncVars>>

\* A handler that keeps the exception already stored ('if not set: store').
FnRaise_keep_first(w) ==
    /\ wpc[w] = "fn"
    /\ exception' = IF exception = NoException THEN witem[w] ELSE exception
    /\ wpc' = [wpc EXCEPT ![w] = "drain"]
    /\ fnState' = [fnState EXCEPT ![witem[w]] = "raised"]
    /\ failures' = Append(failures, witem[w])
    /\ UNCHANGED <<queue, unfinished_tasks, n_threads, witem, waitVars,
                   nextItem, calls, discarded, beforeCall, afterWait,
                   failsAtRead, lateCalls, consumed, sentinels, raisedExc,
                   diffVars, syncVars>>

\* _queue_worker: fn(item) raises and 'except BaseException as e' stores it:
\* 'q.exception = e', an unconditional store. The exception of item i is
\* identified with i.
FnRaise(w) ==
    /\ wpc[w] = "fn"
    /\ exception' = witem[w]
    /\ wpc' = [wpc EXCEPT ![w] = "drain"]
    /\ fnState' = [fnState EXCEPT ![witem[w]] = "raised"]
    /\ failures' = Append(failures, witem[w])
    /\ UNCHANGED <<queue, unfinished_tasks, n_threads, witem, waitVars,
                   nextItem, calls, discarded, beforeCall, afterWait,
                   failsAtRead, lateCalls, consumed, sentinels, raisedExc,
                   diffVars, syncVars>>

\* _Queue.drain: self.get_nowait(); queue.Empty ends the loop, any entry
\* (item or sentinel) is removed.
DrainGet(w) ==
    /\ wpc[w] = "drain"
    /\ IF queue = <<>>
         THEN /\ wpc' = [wpc EXCEPT ![w] = "failed_done"]
              /\ UNCHANGED <<queue, discarded>>
         ELSE /\ queue' = Tail(queue)
              /\ discarded' = IF Head(queue) = None
                                THEN discarded ELSE discarded \cup {Head(queue)}
              /\ wpc' = [wpc EXCEPT ![w] = "drain_done"]
    /\ UNCHANGED <<unfinished_tasks, exception, n_threads, witem, waitVars,
                   nextItem, calls, fnState, beforeCall, afterWait,
                   failsAtRead, failures, lateCalls, consumed, sentinels,
                   raisedExc, diffVars, syncVars>>

\* _Queue.drain: self.task_done() for the entry just removed.
DrainTaskDone(w) ==
    /\ wpc[w] = "drain_done"
    /\ q_task_done
    /\ wpc' = [wpc EXCEPT ![w] = "drain"]
    /\ UNCHANGED <<queue, exception, n_threads, witem, waitVars, nextItem,
                   histVars, diffVars, syncVars>>

\* _queue_worker: q.task_done() for the failed item, then break.
FailedTaskDone(w) ==
    /\ wpc[w] = "failed_done"
    /\ q_task_done
    /\ wpc' = [wpc EXCEPT ![w] = "exited"]
    /\ witem' = [witem EXCEPT ![w] = None]
    /\ UNCHANGED <<queue, exception, n_threads, waitVars, nextItem, histVars,
                   diffVars, syncVars>>

\* One step of the thread running _queue_worker(q, fn).
_queue_worker(w) ==
    \/ Get(w)
    \/ SentinelDone(w)
    \/ FnReturn(w)
    \/ TaskDone(w)
    \/ FnRaise(w)
    \/ DrainGet(w)
    \/ DrainTaskDone(w)
    \/ FailedTaskDone(w)

\* The caller enters wait_for_queue(q, stop=s).
WaitCall(s) ==
    /\ waitPc = "idle"
    /\ nWaits < MaxWaits
    /\ waitPc' = "join"
    /\ stop' = s
    /\ nWaits' = nWaits + 1
    /\ beforeCall' = 1..nextItem
    /\ UNCHANGED <<objVars, workerVars, waitExc, sentI, nextItem, calls,
                   fnState, discarded, afterWait, failsAtRead, failures,
                   lateCalls, consumed, sentinels, raisedExc, diffVars, syncVars>>

\* wait_for_queue: q.join() returns.
Join ==
    /\ waitPc = "join"
    /\ q_join
    /\ waitPc' = "read"
    /\ UNCHANGED <<objVars, workerVars, stop, waitExc, sentI, nWaits,
                   nextItem, histVars, diffVars, syncVars>>

\* A wait whose sentinel loop is guarded by 'if stop' alone.
ReadException_stop_only ==
    /\ waitPc = "read"
    /\ waitExc' = exception
    /\ failsAtRead' = Len(failures)
    /\ sentI' = 0
    /\ waitPc' = IF stop THEN "stopping" ELSE "finish"
    /\ UNCHANGED <<objVars, workerVars, stop, nWaits, nextItem, calls,
                   fnState, discarded, beforeCall, afterWait, failures,
                   lateCalls, consumed, sentinels, raisedExc, diffVars, syncVars>>

\* wait_for_queue: exception = getattr(q, "exception", None), and the test
\* 'if stop or exception is not None' that guards the sentinel loop.
ReadException ==
    /\ waitPc = "read"
    /\ waitExc' = exception
    /\ failsAtRead' = Len(failures)
    /\ sentI' = 0
    /\ waitPc' = IF stop \/ exception # NoException THEN "stopping" ELSE "finish"
    /\ UNCHANGED <<objVars, workerVars, stop, nWaits, nextItem, calls,
                   fnState, discarded, beforeCall, afterWait, failures,
                   lateCalls, consumed, sentinels, raisedExc, diffVars, syncVars>>

\* A sentinel loop that is one short: 'for _ in range(q.n_threads - 1)'.
PutSentinel_one_short ==
    /\ waitPc = "stopping"
    /\ IF sentI < n_threads - 1
         THEN /\ q_put(None)
              /\ sentI' = sentI + 1
              /\ sentinels' = sentinels + 1
              /\ UNCHANGED waitPc
         ELSE /\ waitPc' = "finish"
              /\ UNCHANGED <<queue, unfinished_tasks, sentI, sentinels>>
    /\ UNCHANGED <<exception, n_threads, workerVars, stop, waitExc, nWaits,
                   nextItem, calls, fnState, discarded, beforeCall, afterWait,
                   failsAtRead, failures, lateCalls, consumed, raisedExc,
                   diffVars, syncVars>>

\* wait_for_queue: one q.put(None) of 'for _ in range(q.n_threads)'.
PutSentinel ==
    /\ waitPc = "stopping"
    /\ IF sentI < n_threads
         THEN /\ q_put(None)
              /\ sentI' = sentI + 1
              /\ sentinels' = sentinels + 1
              /\ UNCHANGED waitPc
         ELSE /\ waitPc' = "finish"
              /\ UNCHANGED <<queue, unfinished_tasks, sentI, sentinels>>
    /\ UNCHANGED <<exception, n_threads, workerVars, stop, waitExc, nWaits,
                   nextItem, calls, fnState, discarded, beforeCall, afterWait,
                   failsAtRead, failures, lateCalls, consumed, raisedExc,
                   diffVars, syncVars>>

\* wait_for_queue: 'if exception is not None: raise exception', else return.
\* A call that returned with stop=False leaves the queue live ("idle").
WaitFinish ==
    /\ waitPc = "finish"
    /\ IF waitExc # NoException
         THEN /\ waitPc' = "raised"
              /\ raisedExc' = waitExc
         ELSE /\ waitPc' = IF stop THEN "stopped" ELSE "idle"
              /\ UNCHANGED raisedExc
    /\ UNCHANGED <<objVars, workerVars, stop, waitExc, sentI, nWaits,
                   nextItem, calls, fnState, discarded, beforeCall, afterWait,
                   failsAtRead, failures, lateCalls, consumed, sentinels,
                   diffVars, syncVars>>

\* One step of the caller inside wait_for_queue.
wait_for_queue ==
    \/ Join
    \/ ReadException
    \/ PutSentinel
    \/ WaitFinish

\* ======================================= database.py, settings.py, disk

\* The local paths of the model, as sequences of path components.
PathSet == {<<"sync", "a">>, <<"sync", "b">>}
\* The remote ids of the model.
DriveIds == {"id1", "id2"}
Hashes == 1..NumHashes
Times == 1..MaxTime
\* GoogleDriveDB.get's fallback: no row.
NoEntry == [path |-> <<>>, drive_id |-> "", md5sum |-> 0, date_modified_on_disk |-> 0]
\* A path with no file behind it.
NoFile == [md5 |-> 0, mtime |-> 0]
\* remote_time=None.
NoTime == 0

\* GoogleDriveDB.get(field, key): the row whose unique field equals key, or
\* the fallback None.
GoogleDriveDB_get(field, key) ==
    LET rows == {row \in archive : row[field] = key} IN
    IF rows = {} THEN NoEntry ELSE CHOOSE row \in rows : TRUE

\* os.path.basename; the root of the file system has the empty basename.
basename(path) == IF path = <<>> THEN "" ELSE path[Len(path)]

\* Settings.contains_blacklisted_rules: some rule fully matches the basename.
contains_blacklisted_rules(path) == basename(path) \in blacklisted_rules

\* Settings.is_blacklisted: listed itself, or its basename matches a rule.
is_blacklisted(path) ==
    \/ path \in blacklisted_paths
    \/ contains_blacklisted_rules(path)

\* os.path.exists, ft.md5sum and ft.date_modified on the local file system.
exists(path) == disk[path] # NoFile
md5sum(path) == disk[path].md5
date_modified(path) == disk[path].mtime

\* ======================================================== filecrawler.py

CONFLICT_FLAG == -1
NEUTRAL_FLAG == 0
SAFE_FLAG == 1

\* A time test that needs remote_time older than both times.
conflict_is_stale_both(entry, rtime) ==
    /\ rtime # NoTime
    /\ rtime < entry.date_modified_on_disk
    /\ rtime < date_modified(entry.path)

\* DriveFileCrawler.is_for_download's time test for a three-way conflict:
\* remote_time is given and older than the row's time or the file's mtime.
conflict_is_stale(entry, rtime) ==
    /\ rtime # NoTime
    /\ \/ rtime < entry.date_modified_on_disk
       \/ rtime < date_modified(entry.path)

\* A decision whose hash test is 'if p and q' in place of 'if p or q'.
is_for_download_p_and_q(fid, fmd5, rtime) ==
    LET entry == GoogleDriveDB_get("drive_id", fid) IN
    IF entry = NoEntry
      THEN [flag |-> SAFE_FLAG, hashed |-> FALSE]
    ELSE IF is_blacklisted(entry.path)
      THEN [flag |-> NEUTRAL_FLAG, hashed |-> FALSE]
    ELSE IF ~exists(entry.path)
      THEN [flag |-> CONFLICT_FLAG, hashed |-> FALSE]
    ELSE
      LET local_md5 == md5sum(entry.path)
          p == fmd5 = entry.md5sum
          q == fmd5 = local_md5
          r == local_md5 = entry.md5sum
      IN  IF p /\ q THEN [flag |-> NEUTRAL_FLAG, hashed |-> TRUE]
          ELSE IF r THEN [flag |-> SAFE_FLAG, hashed |-> TRUE]
          ELSE IF conflict_is_stale(entry, rtime)
            THEN [flag |-> NEUTRAL_FLAG, hashed |-> TRUE]
          ELSE [flag |-> CONFLICT_FLAG, hashed |-> TRUE]

\* A decision that applies the time test to a missing local file as well.
is_for_download_stale_missing(fid, fmd5, rtime) ==
    LET entry == GoogleDriveDB_get("drive_id", fid) IN
    IF entry = NoEntry
      THEN [flag |-> SAFE_FLAG, hashed |-> FALSE]
    ELSE IF is_blacklisted(entry.path)
      THEN [flag |-> NEUTRAL_FLAG, hashed |-> FALSE]
    ELSE IF ~exists(entry.path)
      THEN [flag |-> IF rtime # NoTime /\ rtime < entry.date_modified_on_disk
                       THEN NEUTRAL_FLAG ELSE CONFLICT_FLAG,
            hashed |-> FALSE]
    ELSE
      LET local_md5 == md5sum(entry.path)
          p == fmd5 = entry.md5sum
          q == fmd5 = local_md5
          r == local_md5 = entry.md5sum
      IN  IF p \/ q THEN [flag |-> NEUTRAL_FLAG, hashed |-> TRUE]
          ELSE IF r THEN [flag |-> SAFE_FLAG, hashed |-> TRUE]
          ELSE IF conflict_is_stale(entry, rtime)
            THEN [flag |-> NEUTRAL_FLAG, hashed |-> TRUE]
          ELSE [flag |-> CONFLICT_FLAG, hashed |-> TRUE]

\* DriveFileCrawler.is_for_download(file_id, file_md5, remote_time): the flag
\* it returns, and whether it reached local_md5 = ft.md5sum(db_entry.path).
is_for_download(fid, fmd5, rtime) ==
    LET entry == GoogleDriveDB_get("drive_id", fid) IN
    IF entry = NoEntry
      THEN [flag |-> SAFE_FLAG, hashed |-> FALSE]
    ELSE IF is_blacklisted(entry.path)
      THEN [flag |-> NEUTRAL_FLAG, hashed |-> FALSE]
    ELSE IF ~exists(entry.path)
      THEN [flag |-> CONFLICT_FLAG, hashed |-> FALSE]
    ELSE
      LET local_md5 == md5sum(entry.path)
          p == fmd5 = entry.md5sum
          q == fmd5 = local_md5
          r == local_md5 = entry.md5sum
      IN  IF p \/ q THEN [flag |-> NEUTRAL_FLAG, hashed |-> TRUE]
          ELSE IF r THEN [flag |-> SAFE_FLAG, hashed |-> TRUE]
          ELSE IF conflict_is_stale(entry, rtime)
            THEN [flag |-> NEUTRAL_FLAG, hashed |-> TRUE]
          ELSE [flag |-> CONFLICT_FLAG, hashed |-> TRUE]

\* The crawler calls is_for_download for a remote file.
IsForDownload(fid, fmd5, rtime) ==
    /\ diffPc = "ready"
    /\ diffPc' = "returned"
    /\ file_id' = fid
    /\ file_md5' = fmd5
    /\ remote_time' = rtime
    /\ decision' = is_for_download(fid, fmd5, rtime).flag
    /\ hashed' = is_for_download(fid, fmd5, rtime).hashed
    /\ UNCHANGED <<archive, blacklisted_paths, blacklisted_rules, disk,
                   queueVars, histVars, syncVars>>

\* ===================================== database.py: writes to the store

\* GoogleDriveDB.FOLDER_MD5, the checksum shared by every folder row.
FOLDER_MD5 == 0
\* The two threads of a worker pool that record into the store.
Racers == {1, 2}
\* The id the remote store gives the folder each thread creates.
NewFolderIds == <<"fid1", "fid2">>

\* The rows that share a unique field (path, drive_id) with the given keys.
RowsOnEitherKey(path, drive_id) ==
    {row \in archive : row.path = path \/ row.drive_id = drive_id}

\* model.get(path == p, drive_id == d): the rows matching both keys.
RowsOnBothKeys(path, drive_id) ==
    {row \in archive : row.path = path /\ row.drive_id = drive_id}

\* The lookup of model.get_or_create(path=..., drive_id=..., defaults=...):
\* create_or_update passes both unique fields to the 'get' part.
get_or_create_lookup(path, drive_id) == RowsOnBothKeys(path, drive_id)

\* The row a call writes.
NewRow(path, drive_id, md5, time) ==
    [path |-> path, drive_id |-> drive_id, md5sum |-> md5,
     date_modified_on_disk |-> time]

\* Bookkeeping at the start of a call by thread w for path p.
BeginCall(w, op, p, d, h) ==
    /\ upc[w] = "idle"
    /\ uop' = [uop EXCEPT ![w] = op]
    /\ uPath' = [uPath EXCEPT ![w] = p]
    /\ uId' = [uId EXCEPT ![w] = d]
    /\ uMd5' = [uMd5 EXCEPT ![w] = h]
    /\ uResult' = [uResult EXCEPT ![w] = "none"]
    /\ raced' = \E v \in Racers \ {w} : upc[v] # "idle" /\ uPath[v] = p

\* A thread calls GoogleDriveDB.create_or_update(path=p, drive_id=d, ...).
CallCreateOrUpdate(w, p, d, h) ==
    /\ BeginCall(w, "create_or_update", p, d, h)
    /\ upc' = [upc EXCEPT ![w] = "cu_get"]
    /\ hadRow' = IF RowsOnEitherKey(p, d) # {} THEN hadRow \cup {w}
                                             ELSE hadRow \ {w}
    /\ UNCHANGED <<queueVars, histVars, diffVars, runVars, dlVars, rmVars, callVars, lateVars>>

\* get_or_create, first part: query.get() with both unique fields.
CU_Get(w) ==
    /\ upc[w] = "cu_get"
    /\ upc' = [upc EXCEPT ![w] =
                 IF get_or_create_lookup(uPath[w], uId[w]) # {}
                   THEN "cu_update" ELSE "cu_create"]
    /\ UNCHANGED <<uop, uPath, uId, uMd5, uResult, hadRow, raced,
                   queueVars, histVars, diffVars, runVars, dlVars, rmVars,
                   callVars, lateVars>>

\* get_or_create, second part: the INSERT; on IntegrityError the same
\* query.get() once more, and the IntegrityError again if it finds nothing.
CU_Create(w) ==
    /\ upc[w] = "cu_create"
    /\ IF RowsOnEitherKey(uPath[w], uId[w]) = {}
         THEN /\ archive' = archive \cup {NewRow(uPath[w], uId[w], uMd5[w], 1)}
              /\ upc' = [upc EXCEPT ![w] = "idle"]
              /\ uResult' = [uResult EXCEPT ![w] = "ok"]
         ELSE IF get_or_create_lookup(uPath[w], uId[w]) # {}
           THEN /\ upc' = [upc EXCEPT ![w] = "cu_update"]
                /\ UNCHANGED <<archive, uResult>>
           ELSE /\ upc' = [upc EXCEPT ![w] = "idle"]
                /\ uResult' = [uResult EXCEPT ![w] = "IntegrityError"]
                /\ UNCHANGED archive
    /\ UNCHANGED <<uop, uPath, uId, uMd5, hadRow, raced, queueVars, histVars,
                   blacklisted_paths, blacklisted_rules, disk, file_id,
                   file_md5, remote_time, diffPc, decision, hashed, runVars, dlVars, rmVars,
                   callVars, lateVars>>

\* 'if not created: GoogleDriveDB.update(model, **kwargs)': inst.save() of the
\* row that was found, with the new md5sum and date_modified_on_disk.
CU_Update(w) ==
    /\ upc[w] = "cu_update"
    /\ archive' = (archive \ RowsOnBothKeys(uPath[w], uId[w]))
                   \cup {NewRow(uPath[w], uId[w], uMd5[w], 1)}
    /\ upc' = [upc EXCEPT ![w] = "idle"]
    /\ uResult' = [uResult EXCEPT ![w] = "ok"]
    /\ UNCHANGED <<uop, uPath, uId, uMd5, hadRow, raced, queueVars, histVars,
                   blacklisted_paths, blacklisted_rules, disk, file_id,
                   file_md5, remote_time, diffPc, decision, hashed, runVars, dlVars, rmVars,
                   callVars, lateVars>>

\* A thread calls DBDriveUploader.create_dir(path).
CallCreateDir(w, p) ==
    /\ BeginCall(w, "create_dir", p, "", FOLDER_MD5)
    /\ upc' = [upc EXCEPT ![w] = "cd_lookup"]
    /\ hadRow' = IF RowsOnEitherKey(p, "") # {} THEN hadRow \cup {w}
                                              ELSE hadRow \ {w}
    /\ UNCHANGED <<queueVars, histVars, diffVars, runVars, dlVars, rmVars, callVars, lateVars>>

\* folder_id = db.GoogleDriveDB.get_stored_path_id(entry); a stored id is
\* returned as it is.
CD_Lookup(w) ==
    /\ upc[w] = "cd_lookup"
    /\ LET row == GoogleDriveDB_get("path", uPath[w]) IN
       IF row # NoEntry
         THEN /\ upc' = [upc EXCEPT ![w] = "idle"]
              /\ uId' = [uId EXCEPT ![w] = row.drive_id]
              /\ uResult' = [uResult EXCEPT ![w] = "ok"]
         ELSE /\ upc' = [upc EXCEPT ![w] = "cd_remote"]
              /\ UNCHANGED <<uId, uResult>>
    /\ UNCHANGED <<uop, uPath, uMd5, hadRow, raced, queueVars, histVars,
                   diffVars, runVars, dlVars, rmVars, callVars, lateVars>>

\* folder_id = super().create_dir(entry, parent_folder_id=parent_id): the
\* remote store creates a folder and returns its new id.
CD_RemoteCreate(w) ==
    /\ upc[w] = "cd_remote"
    /\ upc' = [upc EXCEPT ![w] = "cd_create"]
    /\ uId' = [uId EXCEPT ![w] = NewFolderIds[w]]
    /\ UNCHANGED <<uop, uPath, uMd5, uResult, hadRow, raced, queueVars,
                   histVars, diffVars, runVars, dlVars, rmVars, callVars,
                   lateVars>>

\* GoogleDriveDB.create(path=entry, drive_id=folder_id, ...): an INSERT in
\* db.atomic(); a row on either unique field makes it raise IntegrityError.
GoogleDriveDB_create(w) ==
    /\ upc[w] = "cd_create"
    /\ upc' = [upc EXCEPT ![w] = "idle"]
    /\ IF RowsOnEitherKey(uPath[w], uId[w]) = {}
         THEN /\ archive' = archive \cup
                    {NewRow(uPath[w], uId[w], FOLDER_MD5, 1)}
              /\ uResult' = [uResult EXCEPT ![w] = "ok"]
         ELSE /\ uResult' = [uResult EXCEPT ![w] = "IntegrityError"]
              /\ UNCHANGED archive
    /\ UNCHANGED <<uop, uPath, uId, uMd5, hadRow, raced, queueVars, histVars,
                   blacklisted_paths, blacklisted_rules, disk, file_id,
                   file_md5, remote_time, diffPc, decision, hashed, runVars, dlVars, rmVars,
                   callVars, lateVars>>

\* No thread is recording.
StoreIdle ==
    /\ upc = [w \in Racers |-> "idle"]
    /\ uop = [w \in Racers |-> "none"]
    /\ uPath = [w \in Racers |-> <<>>]
    /\ uId = [w \in Racers |-> ""]
    /\ uMd5 = [w \in Racers |-> 0]
    /\ uResult = [w \in Racers |-> "none"]
    /\ hadRow = {}
    /\ raced = FALSE

\* ================== uploader.py / downloader.py: fn(item) as a transfer

\* The local path and the remote id of queue item i.
ItemPath(i) == <<"sync", ToString(i)>>
ItemDriveId(i) == ToString(i)

\* The store after a create_or_update(path, drive_id, ...) that succeeds: the
\* row on these keys is the new one.
create_or_update(path, drive_id, md5, time) ==
    (archive \ RowsOnBothKeys(path, drive_id))
        \cup {NewRow(path, drive_id, md5, time)}

\* A transfer that writes its row before the remote call has returned.
RemoteCallReturn_record_first(w) ==
    /\ wpc[w] = "fn"
    /\ witem[w] \notin remoteDone
    /\ remoteDone' = remoteDone \cup {witem[w]}
    /\ archive' = create_or_update(ItemPath(witem[w]), ItemDriveId(witem[w]),
                                   2, 2)
    /\ UNCHANGED <<queueVars, histVars, blacklisted_paths, blacklisted_rules,
                   disk, file_id, file_md5, remote_time, diffPc, decision,
                   hashed, storeVars, archive0, disk0, dlVars, rmVars,
                   callVars, lateVars>>

\* upload_file / download_file: the remote call (google.upload_file,
\* google.download_file) returns; nothing has been recorded yet.
RemoteCallReturn(w) ==
    /\ wpc[w] = "fn"
    /\ witem[w] \notin remoteDone
    /\ remoteDone' = remoteDone \cup {witem[w]}
    /\ UNCHANGED <<queueVars, histVars, diffVars, storeVars, archive0, disk0, dlVars, rmVars,
                   callVars, lateVars>>

\* upload_file / download_file: 'if self.update_db: create_or_update(...)'
\* after the remote call, then fn(item) returns to _queue_worker.
TransferRecord(w) ==
    /\ wpc[w] = "fn"
    /\ witem[w] \in remoteDone
    /\ archive' = create_or_update(ItemPath(witem[w]), ItemDriveId(witem[w]),
                                   2, 2)
    /\ wpc' = [wpc EXCEPT ![w] = "task_done"]
    /\ fnState' = [fnState EXCEPT ![witem[w]] = "returned"]
    /\ UNCHANGED <<objVars, witem, waitVars, nextItem, calls, discarded,
                   beforeCall, afterWait, failsAtRead, failures, lateCalls,
                   consumed, sentinels, raisedExc, blacklisted_paths,
                   blacklisted_rules, disk, file_id, file_md5, remote_time,
                   diffPc, decision, hashed, storeVars, remoteDone, archive0,
                   disk0, dlVars, rmVars, callVars, lateVars>>

\* No transfer has run.
TransferIdle ==
    /\ remoteDone = {}
    /\ archive0 = {}
    /\ disk0 = disk

\* ========================= backuper.py: the download flows and conflicts

\* The remote files whose changes a poll reports (those that pass the
\* filters of get_changes_to_download: not trashed, not older than the last
\* sync, under a sync root), with the local path get_dl_path gives each.
RemoteFiles ==
    <<[id |-> "id1", md5 |-> 2, path |-> <<"sync", "a">>],
      [id |-> "id2", md5 |-> 1, path |-> <<"sync", "b">>]>>
ChangeIds == 1..Len(RemoteFiles)
\* The local paths of the sync flows: the sync root, the download paths, a
\* file inside the folder sync/a, and the names create_filename makes up.
LocalPaths ==
    {<<"sync">>, <<"sync", "a">>, <<"sync", "b">>, <<"sync", "a", "f">>,
     <<"sync", "a (1)">>, <<"sync", "a (2)">>, <<"sync", "b (1)">>}
\* What the user can type at the prompt; "x" is any other input.
Inputs == {"y", "n", "o", "a", "r", "c", "?", "x"}

\* os.path.join(l_path, "{} ({}){}".format(filename, index, extension)) for
\* a name without extension.
indexed_filename(path, index) ==
    SubSeq(path, 1, Len(path) - 1) \o
        <<basename(path) \o " (" \o ToString(index) \o ")">>

\* A create_filename that takes index 1 without looking.
create_filename_first_index(path) ==
    IF ~exists(path) THEN path ELSE indexed_filename(path, 1)

\* 'while os.path.exists(new_path): index += 1': the first index from
\* 'index' on whose name is free.
RECURSIVE first_free_filename(_, _)
first_free_filename(path, index) ==
    LET new_path == indexed_filename(path, index) IN
    IF new_path \in DOMAIN disk /\ exists(new_path)
      THEN first_free_filename(path, index + 1)
      ELSE new_path

\* ft.create_filename: the path itself when nothing is there, otherwise
\* 'name (index)' with the first free index from 1 on.
create_filename(path) ==
    IF ~exists(path) THEN path ELSE first_free_filename(path, 1)

\* A test that sends only the items whose local path exists to the resolver.
is_conflict_exists_only(d, path) == exists(path)

\* download_changes / full_download_sync: 'if obj.sync_decision ==
\* crawler.CONFLICT_FLAG or os.path.exists(path)'.
is_conflict(d, path) == d = CONFLICT_FLAG \/ exists(path)

\* A poll that stores the new cursor in a dry run as well.
update_token_always == flow = "download_changes"

\* download_changes passes update_token=(not dry_run); full_download_sync
\* polls with get_ids_to_download_in_folder, which stores no cursor.
update_token == flow = "download_changes" /\ ~dry_run

\* The crawler's generator yields its next change to the 'for obj in' loop:
\* a NEUTRAL decision is not yielded, a conflict is appended to conflicts,
\* anything else goes to enqueue (a print in a dry run, q.put otherwise).
CrawlStep ==
    /\ dlPc = "crawl"
    /\ poll # <<>>
    /\ LET c == Head(poll)
           d == is_for_download(RemoteFiles[c].id, RemoteFiles[c].md5, 2).flag
       IN  /\ poll' = Tail(poll)
           /\ sync_decision' = [sync_decision EXCEPT ![c] = d]
           /\ yielded' = IF d = NEUTRAL_FLAG THEN yielded
                                             ELSE yielded \cup {c}
           /\ IF d = NEUTRAL_FLAG
                THEN UNCHANGED <<conflicts, queue, unfinished_tasks, enqueued>>
              ELSE IF is_conflict(d, dlPath[c])
                THEN /\ conflicts' = Append(conflicts, c)
                     /\ UNCHANGED <<queue, unfinished_tasks, enqueued>>
              ELSE IF dry_run
                THEN UNCHANGED <<conflicts, queue, unfinished_tasks, enqueued>>
              ELSE /\ q_put(c)
                   /\ enqueued' = enqueued \cup {c}
                   /\ UNCHANGED conflicts
    /\ UNCHANGED <<exception, n_threads, workerVars, waitVars, nextItem,
                   histVars, diffVars, storeVars, runVars, dlPc, flow,
                   dry_run, resolverVars, dlPath, download_token,
                   last_download_sync_time, rmVars, callVars, lateVars>>

\* The generator is exhausted: get_changes_to_download runs 'if update_token:
\* set_last_download_change_token(get_start_page_token())' and the for loop
\* of the caller ends.
CrawlEnd ==
    /\ dlPc = "crawl"
    /\ poll = <<>>
    /\ download_token' = IF update_token THEN "t1" ELSE download_token
    /\ dlPc' = "wait1"
    /\ UNCHANGED <<queueVars, histVars, diffVars, storeVars, runVars, flow,
                   dry_run, poll, sync_decision, yielded, conflicts,
                   resolverVars, dlPath, enqueued, last_download_sync_time,
                   rmVars, callVars, lateVars>>

\* downloader.wait_for_queue(q, stop): q.join(), then n_threads sentinels if
\* stop. The first call has stop = no_conflicts, the second stop = True.
DlWaitForQueue ==
    /\ dlPc \in {"wait1", "wait2"}
    /\ q_join
    /\ LET stopNow == dlPc = "wait2" \/ conflicts = <<>> IN
        /\ queue' = IF stopNow THEN queue \o [k \in 1..n_threads |-> None]
                               ELSE queue
        /\ unfinished_tasks' = IF stopNow THEN unfinished_tasks + n_threads
                                          ELSE unfinished_tasks
    /\ dlPc' = IF dlPc = "wait1" /\ conflicts # <<>> THEN "resolve"
                                                     ELSE "mark"
    /\ UNCHANGED <<exception, n_threads, workerVars, waitVars, nextItem,
                   histVars, diffVars, storeVars, runVars, flow, dry_run,
                   poll, sync_decision, yielded, conflicts, resolverVars,
                   dlPath, enqueued, download_token, last_download_sync_time,
                   rmVars, callVars, lateVars>>

\* A choice that forgets the bulk flag accept_all_nonconflict.
choice_without_rename_all(inp) ==
    IF accept_all THEN "y" ELSE IF reject_all THEN "n" ELSE inp

\* handle_download_conflicts: q is 'y', 'n' or 'o' when a bulk flag is set,
\* otherwise what input() returns.
choice(inp) ==
    IF accept_all THEN "y"
    ELSE IF reject_all THEN "n"
    ELSE IF accept_all_nonconflict THEN "o"
    ELSE inp

\* handle_download_conflicts: one pass of 'while True' for the current item
\* of 'for obj, path in conflicts'; the function returns after the last item.
HandleInput(inp) ==
    /\ dlPc = "resolve"
    /\ LET q == choice(inp)
           obj == conflicts[hcIdx]
           path == dlPath[obj]
           last == hcIdx = Len(conflicts)
       IN  /\ hq' = q
           /\ resolved' = IF q = "y" THEN Append(resolved, <<obj, path>>)
                          ELSE IF q = "o"
                            THEN Append(resolved, <<obj, create_filename(path)>>)
                          ELSE resolved
           /\ rejected' = IF q = "n" THEN Append(rejected, <<obj, path>>)
                                     ELSE rejected
           /\ accept_all' = (accept_all \/ q = "a")
           /\ reject_all' = (reject_all \/ q = "r")
           /\ accept_all_nonconflict' = (accept_all_nonconflict \/ q = "c")
           /\ bulkFrom' = IF q \in {"a", "r", "c"} THEN hcIdx ELSE bulkFrom
           /\ hcIdx' = IF q \in {"y", "n", "o"} THEN hcIdx + 1 ELSE hcIdx
           /\ dlPc' = IF q \in {"y", "n", "o"} /\ last THEN "enqueue"
                                                      ELSE "resolve"
    /\ UNCHANGED <<queueVars, histVars, diffVars, storeVars, runVars, flow,
                   dry_run, poll, sync_decision, yielded, conflicts, dlPath,
                   enqueued, download_token, last_download_sync_time, rmVars,
                   callVars, lateVars>>

\* 'for obj, path in resolved: enqueue(q, obj, path)'.
EnqueueResolved ==
    /\ dlPc = "enqueue"
    /\ dlPc' = "wait2"
    /\ IF dry_run
         THEN UNCHANGED <<queue, unfinished_tasks, dlPath, enqueued>>
         ELSE /\ queue' = queue \o [k \in 1..Len(resolved) |-> resolved[k][1]]
              /\ unfinished_tasks' = unfinished_tasks + Len(resolved)
              /\ dlPath' = [c \in ChangeIds |->
                              IF \E k \in 1..Len(resolved) : resolved[k][1] = c
                                THEN LET k == CHOOSE k \in 1..Len(resolved) :
                                                  resolved[k][1] = c
                                     IN  resolved[k][2]
                                ELSE dlPath[c]]
              /\ enqueued' = enqueued \cup {resolved[k][1] : k \in 1..Len(resolved)}
    /\ UNCHANGED <<exception, n_threads, workerVars, waitVars, nextItem,
                   histVars, diffVars, storeVars, runVars, flow, dry_run,
                   poll, sync_decision, yielded, conflicts, resolverVars,
                   download_token, last_download_sync_time, rmVars,
                   callVars, lateVars>>

\* download_changes: 'if not dry_run: set_last_download_sync_time()';
\* full_download_sync has no such line.
MarkSyncTime ==
    /\ dlPc = "mark"
    /\ dlPc' = "done"
    /\ last_download_sync_time' =
          IF flow = "download_changes" /\ ~dry_run
            THEN "s1" ELSE last_download_sync_time
    /\ UNCHANGED <<queueVars, histVars, diffVars, storeVars, runVars, flow,
                   dry_run, poll, sync_decision, yielded, conflicts,
                   resolverVars, dlPath, enqueued, download_token, rmVars,
                   callVars, lateVars>>

\* download_queue_worker: download_file(entry...) = google.download_file,
\* which writes the local file, then create_or_update; a row that matches
\* only one of the two keys makes create_or_update raise IntegrityError,
\* which ends the thread before its q.task_done().
DownloadFile(w) ==
    /\ wpc[w] = "fn"
    /\ LET c == witem[w]
           path == dlPath[c]
           id == RemoteFiles[c].id
           clash == RowsOnEitherKey(path, id) # RowsOnBothKeys(path, id)
       IN  /\ disk' = [disk EXCEPT ![path] = [md5 |-> RemoteFiles[c].md5,
                                              mtime |-> 2]]
           /\ archive' = IF clash THEN archive
                         ELSE create_or_update(path, id, RemoteFiles[c].md5, 2)
           /\ wpc' = [wpc EXCEPT ![w] = IF clash THEN "exited" ELSE "task_done"]
           /\ fnState' = [fnState EXCEPT ![c] = IF clash THEN "raised"
                                                          ELSE "returned"]
    /\ UNCHANGED <<objVars, witem, waitVars, nextItem, calls, discarded,
                   beforeCall, afterWait, failsAtRead, failures, lateCalls,
                   consumed, sentinels, raisedExc, blacklisted_paths,
                   blacklisted_rules, file_id, file_md5, remote_time, diffPc,
                   decision, hashed, storeVars, runVars, dlVars, rmVars,
                   callVars, lateVars>>

\* download_queue_worker: google.download_file raises; nothing catches it,
\* the thread ends without q.task_done() for its entry.
DownloadFails(w) ==
    /\ wpc[w] = "fn"
    /\ wpc' = [wpc EXCEPT ![w] = "exited"]
    /\ fnState' = [fnState EXCEPT ![witem[w]] = "raised"]
    /\ UNCHANGED <<objVars, witem, waitVars, nextItem, calls, discarded,
                   beforeCall, afterWait, failsAtRead, failures, lateCalls,
                   consumed, sentinels, raisedExc, diffVars, syncVars>>

\* No download flow is running.
DlIdle ==
    /\ dlPc = "off"
    /\ flow = "none"
    /\ dry_run = FALSE
    /\ poll = <<>>
    /\ sync_decision = [c \in ChangeIds |-> NEUTRAL_FLAG]
    /\ yielded = {}
    /\ conflicts = <<>>
    /\ hcIdx = 1
    /\ resolved = <<>>
    /\ rejected = <<>>
    /\ accept_all = FALSE
    /\ reject_all = FALSE
    /\ accept_all_nonconflict = FALSE
    /\ hq = ""
    /\ bulkFrom = 0
    /\ dlPath = [c \in ChangeIds |-> RemoteFiles[c].path]
    /\ enqueued = {}
    /\ download_token = "t0"
    /\ last_download_sync_time = "s0"

\* ================================ backuper.py: the removed-items flows

\* The roots the user syncs (Settings.sync_dirs).
sync_dirs == {<<"sync">>}

\* ft.parent_dir and os.path.isdir.
parent_dir(path) ==
    IF path = <<>> THEN <<>> ELSE SubSeq(path, 1, Len(path) - 1)
isdir(path) == exists(path) /\ disk[path].md5 = FOLDER_MD5

\* An is_blacklisted_parent that tests the blacklist before the stop set.
is_blacklisted_parent_body_blacklist_first(path, stopAt) ==
    IF is_blacklisted(path) THEN "True"
    ELSE IF path \in stopAt THEN "False"
    ELSE IF parent_dir(path) = path THEN "False"
    ELSE "recurse"

\* The body of Settings.is_blacklisted_parent for one path: what it returns,
\* or that it calls itself with the parent.
is_blacklisted_parent_body(path, stopAt) ==
    IF path \in stopAt THEN "False"
    ELSE IF is_blacklisted(path) THEN "True"
    ELSE IF parent_dir(path) = path THEN "False"
    ELSE "recurse"

\* Settings.is_blacklisted_parent(path, stop): path or a parent of it, up to
\* (excluding) a path in the argument 'stop', is blacklisted.
RECURSIVE is_blacklisted_parent(_, _)
is_blacklisted_parent(path, stopAt) ==
    LET r == is_blacklisted_parent_body(path, stopAt) IN
    IF r = "recurse" THEN is_blacklisted_parent(parent_dir(path), stopAt)
    ELSE r = "True"

\* Settings.blacklist_path(entry): the new blacklisted_paths.
blacklist_path(entry) ==
    IF ~exists(entry) THEN blacklisted_paths
    ELSE IF ~is_blacklisted_parent(entry, sync_dirs)
      THEN blacklisted_paths \cup {entry}
    ELSE blacklisted_paths

\* Settings.clean_blacklisted_paths: the entries that exist and have no
\* blacklisted parent.
clean_blacklisted_paths ==
    {entry \in blacklisted_paths :
        exists(entry) /\ ~is_blacklisted_parent(parent_dir(entry), sync_dirs)}

\* A delete that removes only the row of the path itself.
rows_to_delete_exact(path) == {row \in archive : row.path = path}

\* The path string the database stores for a path: its components joined
\* with the separator.
RECURSIVE path_text(_)
path_text(path) ==
    IF Len(path) = 0 THEN ""
    ELSE IF Len(path) = 1 THEN path[1]
    ELSE path_text(SubSeq(path, 1, Len(path) - 1)) \o "/" \o path[Len(path)]

\* peewee's contains (SQL LIKE '%sub%'): 'sub' occurs somewhere in 'str'.
contains(str, sub) ==
    \E k \in 1..(Len(str) + 1) :
        /\ k + Len(sub) - 1 <= Len(str)
        /\ SubSeq(str, k, k + Len(sub) - 1) = sub

\* model.delete().where(model.path.contains(archive.path)): the rows whose
\* path string contains the removed path string.
rows_to_delete(path) ==
    {row \in archive : contains(path_text(row.path), path_text(path))}

\* An is_for_sync that also takes a file as old as its row.
is_for_sync_not_older(path) ==
    LET row == GoogleDriveDB_get("path", path) IN
    IF row # NoEntry
      THEN ~isdir(path) /\ date_modified(path) >= row.date_modified_on_disk
      ELSE TRUE

\* LocalFileCrawler.is_for_sync: an untracked path, or a tracked file that
\* is newer on disk than its row.
is_for_sync(path) ==
    LET row == GoogleDriveDB_get("path", path) IN
    IF row # NoEntry
      THEN ~isdir(path) /\ date_modified(path) > row.date_modified_on_disk
      ELSE TRUE

\* LocalFileCrawler.get_all_paths_to_sync(path): what the os.walk loop yields;
\* a blacklisted directory is pruned with everything beneath it.
RECURSIVE get_all_paths_to_sync(_)
get_all_paths_to_sync(root) ==
    IF ~isdir(root) \/ is_blacklisted(root) THEN {}
    ELSE LET inside == {p \in LocalPaths : Len(p) > 1 /\ parent_dir(p) = root
                                           /\ exists(p)}
         IN  (IF is_for_sync(root) THEN {root} ELSE {})
             \cup {f \in inside : ~isdir(f) /\ ~is_blacklisted(f)
                                            /\ is_for_sync(f)}
             \cup UNION {get_all_paths_to_sync(d) : d \in {p \in inside : isdir(p)}}

\* get_removed_from_gd(update_token) for list_removed_from_gd (False),
\* blacklist_removed_from_gd and remove_db_removed_from_gd (True).
removed_update_token == rmFlow # "list"

\* A generator that may stop before the last reported id.
RemovedEnd_early ==
    /\ rmPc = "loop"
    /\ removed_token' = IF removed_update_token THEN "r1" ELSE removed_token
    /\ rmPc' = IF rmFlow = "blacklist" THEN "clean" ELSE "done"
    /\ UNCHANGED <<queueVars, histVars, diffVars, storeVars, runVars, dlVars,
                   rmFlow, removedIds, reported, processed,
                   data_blacklisted_paths, callVars, lateVars>>

\* A loop body that also removes the local file or folder.
RemovedStep_unlink ==
    /\ rmPc = "loop"
    /\ removedIds # <<>>
    /\ removedIds' = Tail(removedIds)
    /\ LET row == GoogleDriveDB_get("drive_id", Head(removedIds)) IN
       IF row = NoEntry \/ rmFlow = "list"
         THEN UNCHANGED <<archive, blacklisted_paths, processed, disk>>
         ELSE /\ blacklisted_paths' = blacklist_path(row.path)
              /\ archive' = archive \ rows_to_delete(row.path)
              /\ processed' = processed \cup {row.path}
              /\ disk' = [disk EXCEPT ![row.path] = NoFile]
    /\ UNCHANGED <<queueVars, histVars, blacklisted_rules, file_id,
                   file_md5, remote_time, diffPc, decision, hashed, storeVars,
                   runVars, dlVars, rmPc, rmFlow, reported, removed_token,
                   data_blacklisted_paths, callVars, lateVars>>

\* get_last_removed yields the next removed id, get_removed_from_gd yields
\* its row if there is one, and the caller's loop body runs: a print, or
\* blacklist_path(archive.path) and the delete of the rows under it.
RemovedStep ==
    /\ rmPc = "loop"
    /\ removedIds # <<>>
    /\ removedIds' = Tail(removedIds)
    /\ LET row == GoogleDriveDB_get("drive_id", Head(removedIds)) IN
       IF row = NoEntry \/ rmFlow = "list"
         THEN UNCHANGED <<archive, blacklisted_paths, processed>>
         ELSE /\ blacklisted_paths' = blacklist_path(row.path)
              /\ archive' = archive \ rows_to_delete(row.path)
              /\ processed' = processed \cup {row.path}
    /\ UNCHANGED <<queueVars, histVars, blacklisted_rules, disk, file_id,
                   file_md5, remote_time, diffPc, decision, hashed, storeVars,
                   runVars, dlVars, rmPc, rmFlow, reported, removed_token,
                   data_blacklisted_paths, callVars, lateVars>>

\* The loop body raises after blacklist_path, in q.execute(): the exception
\* leaves the caller and the generators are never resumed.
RemovedStepRaises ==
    /\ rmPc = "loop"
    /\ removedIds # <<>>
    /\ rmFlow # "list"
    /\ LET row == GoogleDriveDB_get("drive_id", Head(removedIds)) IN
        /\ row # NoEntry
        /\ blacklisted_paths' = blacklist_path(row.path)
    /\ rmPc' = "raised"
    /\ UNCHANGED <<queueVars, histVars, archive, blacklisted_rules, disk,
                   file_id, file_md5, remote_time, diffPc, decision, hashed,
                   storeVars, runVars, dlVars, rmFlow, removedIds, reported,
                   processed, removed_token, data_blacklisted_paths,
                   callVars, lateVars>>

\* get_last_removed after its loop: 'if update_token:
\* set_last_removed_change_token(get_start_page_token())'.
RemovedEnd ==
    /\ rmPc = "loop"
    /\ removedIds = <<>>
    /\ removed_token' = IF removed_update_token THEN "r1" ELSE removed_token
    /\ rmPc' = IF rmFlow = "blacklist" THEN "clean" ELSE "done"
    /\ UNCHANGED <<queueVars, histVars, diffVars, storeVars, runVars, dlVars,
                   rmFlow, removedIds, reported, processed,
                   data_blacklisted_paths, callVars, lateVars>>

\* blacklist_removed_from_gd: self.conf.clean_blacklisted_paths(), which
\* also hands the set to the data file (set_blacklisted_paths).
CleanBlacklist ==
    /\ rmPc = "clean"
    /\ blacklisted_paths' = clean_blacklisted_paths
    /\ data_blacklisted_paths' = clean_blacklisted_paths
    /\ rmPc' = "done"
    /\ UNCHANGED <<queueVars, histVars, archive, blacklisted_rules, disk,
                   file_id, file_md5, remote_time, diffPc, decision, hashed,
                   storeVars, runVars, dlVars, rmFlow, removedIds, reported,
                   processed, removed_token, callVars, lateVars>>

\* Backuper.exit writes the data file; a later run builds its Settings from
\* it: blacklisted_paths is what the data file holds (the user's own list of
\* blacklisted paths is empty).
ExitAndReload ==
    /\ rmPc = "done"
    /\ rmPc' = "later"
    /\ blacklisted_paths' = data_blacklisted_paths
    /\ UNCHANGED <<queueVars, histVars, archive, blacklisted_rules, disk,
                   file_id, file_md5, remote_time, diffPc, decision, hashed,
                   storeVars, runVars, dlVars, rmFlow, removedIds, reported,
                   processed, removed_token, data_blacklisted_paths,
                   callVars, lateVars>>

\* No removed-items flow is running.
RmIdle ==
    /\ rmPc = "off"
    /\ rmFlow = "none"
    /\ removedIds = <<>>
    /\ reported = <<>>
    /\ processed = {}
    /\ removed_token = "r0"
    /\ data_blacklisted_paths = {}

\* ================================= settings.py: one call on the blacklist

\* The paths a call is made with; <<>> is the root of the file system.
BlPaths ==
    {<<>>, <<"sync">>, <<"sync", "a">>, <<"sync", "a", "f">>, <<"sync", "b">>}
\* The values of the argument 'stop': the sync roots, nothing, a folder
\* inside a sync root.
StopSets == {sync_dirs, {}, {<<"sync", "a">>}}

\* Settings.is_blacklisted(bpPath) is called and returns.
IsBlacklisted ==
    /\ bpOp = "is_blacklisted"
    /\ bpPc = "ready"
    /\ bpResult' = is_blacklisted(bpPath)
    /\ bpPc' = "returned"
    /\ UNCHANGED <<queueVars, histVars, diffVars, storeVars, runVars, dlVars,
                   rmVars, bpOp, bpPath, bpStop, bpCur, bpDepth, retryVars,
                   upVars, lateVars>>

\* One level of Settings.is_blacklisted_parent(bpCur, bpStop): it returns,
\* or it calls itself with the parent of bpCur.
IsBlacklistedParent ==
    /\ bpOp = "is_blacklisted_parent"
    /\ bpPc \in {"ready", "recursing"}
    /\ LET r == is_blacklisted_parent_body(bpCur, bpStop) IN
       IF r = "recurse"
         THEN /\ bpCur' = parent_dir(bpCur)
              /\ bpDepth' = bpDepth + 1
              /\ bpPc' = "recursing"
              /\ UNCHANGED bpResult
         ELSE /\ bpResult' = (r = "True")
              /\ bpPc' = "returned"
              /\ UNCHANGED <<bpCur, bpDepth>>
    /\ UNCHANGED <<queueVars, histVars, diffVars, storeVars, runVars, dlVars,
                   rmVars, bpOp, bpPath, bpStop, retryVars, upVars,
                   lateVars>>

\* No call on the blacklist is being made.
BlIdle ==
    /\ bpOp = "none"
    /\ bpPath = <<>>
    /\ bpStop = {}
    /\ bpCur = <<>>
    /\ bpDepth = 0
    /\ bpPc = "off"
    /\ bpResult = FALSE

\* ================================== googledrive.py: handle_http_error

NUM_RETRIES == 6
RETRYABLE_HTTP_ERROR_CODES == {403, 500}
\* What one invocation of the wrapped call does: it returns (200) or raises
\* an HttpError with one of these statuses.
HttpStatuses == {200, 400, 403, 404, 500}

\* A delay that grows by two seconds per attempt.
sleeptime_linear(n) == 2 * n

\* 'sleeptime = 2 ** attempt'.
sleeptime(n) == 2 ^ n

\* An 'ignore' test that looks at the flag only.
is_ignored_flag_only(status) == ignore

\* 'if ignore or e.resp.status == 404'.
is_ignored(status) == ignore \/ status = 404

\* One pass of 'for attempt in range(1, NUM_RETRIES + 1)': func is invoked
\* and returns, or raises HttpError(status); an ignored error returns None,
\* a retryable one sleeps, and every error that is not ignored goes on to
\* the next attempt.
Attempt(status) ==
    /\ rtPc = "loop"
    /\ attempt <= NUM_RETRIES
    /\ invocations' = invocations + 1
    /\ IF status = 200
         THEN /\ rtResult' = "value"
              /\ rtPc' = "returned"
              /\ UNCHANGED <<attempt, errors, slept>>
         ELSE /\ errors' = Append(errors, status)
              /\ IF is_ignored(status)
                   THEN /\ rtResult' = "None"
                        /\ rtPc' = "returned"
                        /\ UNCHANGED <<attempt, slept>>
                   ELSE /\ slept' = IF status \in RETRYABLE_HTTP_ERROR_CODES
                                      THEN Append(slept, sleeptime(attempt))
                                      ELSE slept
                        /\ attempt' = attempt + 1
                        /\ UNCHANGED <<rtResult, rtPc>>
    /\ UNCHANGED <<queueVars, histVars, diffVars, storeVars, runVars, dlVars,
                   rmVars, blVars, silent, ignore, raisedError, gdFiles,
                   deletes, upVars, lateVars>>

\* The loop has run out of attempts: 'if silent: return' else 'raise error'.
RetriesExhausted ==
    /\ rtPc = "loop"
    /\ attempt = NUM_RETRIES + 1
    /\ IF silent
         THEN /\ rtResult' = "None"
              /\ rtPc' = "returned"
              /\ UNCHANGED raisedError
         ELSE /\ rtResult' = "raised"
              /\ rtPc' = "raised"
              /\ raisedError' = errors[Len(errors)]
    /\ UNCHANGED <<queueVars, histVars, diffVars, storeVars, runVars, dlVars,
                   rmVars, blVars, attempt, invocations, errors, slept,
                   silent, ignore, gdFiles, deletes, upVars, lateVars>>

\* GoogleDrive.delete(file_id): files().delete(...).execute() removes the
\* file, answers 404 for an id that is not there, or fails otherwise
\* (status); 404 is logged and ignored, any other error is raised.
GoogleDrive_delete(id, status) ==
    /\ rtPc \in {"returned", "raised"}
    /\ Len(deletes) < MaxDeletes
    /\ status \in {403, 500} \/ status = (IF id \in gdFiles THEN 200 ELSE 404)
    /\ gdFiles' = IF status = 200 THEN gdFiles \ {id} ELSE gdFiles
    /\ deletes' = Append(deletes, [id |-> id, status |-> status,
                                   raised |-> status \notin {200, 404},
                                   before |-> gdFiles])
    /\ UNCHANGED <<queueVars, histVars, diffVars, storeVars, runVars, dlVars,
                   rmVars, blVars, rtPc, attempt, invocations, errors, slept,
                   rtResult, raisedError, silent, ignore, upVars, lateVars>>

\* No wrapped call and no delete is being made.
RetryIdle ==
    /\ rtPc = "off"
    /\ attempt = 1
    /\ invocations = 0
    /\ errors = <<>>
    /\ slept = <<>>
    /\ rtResult = "none"
    /\ raisedError = 0
    /\ silent = FALSE
    /\ ignore = FALSE
    /\ gdFiles = {}
    /\ deletes = <<>>

\* ========================== backuper.py / uploader.py: the upload flows

\* The files of the synced tree; the upload queue holds index i for
\* FilePaths[i].
FilePaths == <<<<"sync", "a", "f">>, <<"sync", "b">>>>
FileItem(path) == CHOOSE i \in 1..Len(FilePaths) : FilePaths[i] = path
\* The id the remote store gives a folder or file it creates for a path.
NewIdOf(path) ==
    CASE path = <<"sync">> -> "new0"
      [] path = <<"sync", "a">> -> "new1"
      [] path = <<"sync", "b">> -> "new2"
      [] OTHER -> "new3"

\* The entries os.walk finds in a directory.
listdir(d) ==
    {p \in LocalPaths : Len(p) = Len(d) + 1 /\ parent_dir(p) = d /\ exists(p)}
\* A set as a list, in the order the directory is scanned.
RECURSIVE scandir(_)
scandir(S) ==
    IF S = {} THEN <<>>
    ELSE LET p == CHOOSE x \in S : TRUE IN <<p>> \o scandir(S \ {p})

\* A walk that leaves 'dirs' as it is when the directory is blacklisted.
dirs_to_walk_no_clear(d) == scandir({p \in listdir(d) : isdir(p)})

\* 'if self.conf.is_blacklisted(root): dirs.clear(); continue': the
\* directories os.walk goes on to from root.
dirs_to_walk(d) ==
    IF is_blacklisted(d) THEN <<>>
    ELSE scandir({p \in listdir(d) : isdir(p)})

\* What a walk of the given kind yields from the non-blacklisted directory
\* d: d itself (get_folders_to_sync, get_all_paths_to_sync) and the files in
\* it (get_files_to_sync, get_all_paths_to_sync) that are for sync.
yields_root(kind, d) == kind \in {"folders", "all"} /\ is_for_sync(d)
files_tested(kind, d) ==
    IF kind \in {"files", "all"} THEN {p \in listdir(d) : ~isdir(p)} ELSE {}
yields_files(kind, d) ==
    {f \in files_tested(kind, d) : ~is_blacklisted(f) /\ is_for_sync(f)}

\* GoogleDriveDB.get_stored_path_id(path): the drive_id of the row, or the
\* fallback None ("").
get_stored_path_id(path) == GoogleDriveDB_get("path", path).drive_id

\* A parent lookup that always answers with the fallback.
get_parent_folder_id_fallback(path) == "root"

\* DBDriveUploader.get_parent_folder_id(entry): the drive_id of the row of
\* ft.parent_dir(entry); GoogleDriveDB.get_parent_folder_id falls back to
\* "root", so the uploader's own 'if folder_id is None' never applies.
get_parent_folder_id(path) ==
    IF get_stored_path_id(parent_dir(path)) = "" THEN "root"
    ELSE get_stored_path_id(parent_dir(path))

\* A record that leaves the modification time out.
upload_file_row_undated(path, id) == NewRow(path, id, md5sum(path), 0)

\* A record that carries the folders' checksum instead of the file's.
upload_file_row_folder_md5(path, id) ==
    NewRow(path, id, FOLDER_MD5, date_modified(path))

\* upload_file: the fields given to create_or_update.
upload_file_row(path, id) ==
    NewRow(path, id, md5sum(path), date_modified(path))

\* What a call sent to the remote store looked like: the path, the remote
\* parent used, and whether the parent directory had a row at that moment.
Sent(path) ==
    [path |-> path, parent |-> get_parent_folder_id(path),
     parentRow |-> GoogleDriveDB_get("path", parent_dir(path))]

\* DBDriveUploader.create_dir(path): the store afterwards. Nothing happens
\* when the path has a row; otherwise the folder is created under the
\* parent's id and its row is created.
create_dir(path) ==
    IF get_stored_path_id(path) # "" THEN archive
    ELSE archive \cup {NewRow(path, NewIdOf(path), FOLDER_MD5,
                              date_modified(path))}

\* The walk of the current phase.
walk_kind ==
    IF upFlow = "list_upload_changes" THEN "all"
    ELSE IF upPc = "folders" THEN "folders" ELSE "files"

\* mirror(path, fast=True) up to the walks of full_upload_sync: the folder
\* id is the row's or create_dir(entry)'s; delete_removed_from_local_db
\* deletes, remotely and from the store, every row under the path whose
\* local path does not exist, with the rows under it; full_upload_sync
\* links the path to the folder id with create_or_update.
MirrorBegin ==
    /\ upPc = "begin"
    /\ LET root == CHOOSE r \in sync_dirs : TRUE
           linked == create_dir(root)
           gone == {row \in linked : ~exists(row.path)}
           under == {row \in linked :
                        \E g \in gone : Len(g.path) <= Len(row.path)
                            /\ SubSeq(row.path, 1, Len(g.path)) = g.path}
       IN  /\ archive' = linked \ under
           /\ gdDeleted' = gdDeleted \cup {row.drive_id : row \in gone}
           /\ sent' = IF get_stored_path_id(root) = ""
                        THEN Append(sent, Sent(root)) ELSE sent
    /\ upPc' = "folders"
    /\ UNCHANGED <<queueVars, histVars, blacklisted_paths, blacklisted_rules,
                   disk, file_id, file_md5, remote_time, diffPc, decision,
                   hashed, storeVars, runVars, dlVars, rmVars, blVars,
                   retryVars, upFlow, upRun, walkTodo, visited, tested,
                   syncTested, walkYield, lateVars>>

\* One pass of 'for root, dirs, files in os.walk(path)' with the body of the
\* consumer's loop for everything it yields: list_upload_changes prints,
\* _upload_folder_structure calls create_dir(folder), _enqueue_path_changes
\* calls q.put(fpath); the crawl of a later run only lists.
WalkDir ==
    /\ upPc \in {"folders", "files", "all"}
    /\ walkTodo # <<>>
    /\ LET d == Head(walkTodo)
           kind == walk_kind
           skip == is_blacklisted(d)
           root == ~skip /\ yields_root(kind, d)
           files == IF skip THEN {} ELSE yields_files(kind, d)
           acts == upRun = 1 /\ upFlow # "list_upload_changes"
       IN  /\ walkTodo' = dirs_to_walk(d) \o Tail(walkTodo)
           /\ visited' = visited \cup {d}
           /\ tested' = tested \cup {d}
                          \cup (IF skip THEN {} ELSE files_tested(kind, d))
           /\ syncTested' = syncTested
                \cup (IF ~skip /\ kind \in {"folders", "all"} THEN {d} ELSE {})
                \cup (IF skip THEN {}
                      ELSE {f \in files_tested(kind, d) : ~is_blacklisted(f)})
           /\ walkYield' = walkYield \cup (IF root THEN {d} ELSE {}) \cup files
           /\ IF acts /\ root
                THEN /\ archive' = create_dir(d)
                     /\ sent' = Append(sent, Sent(d))
                ELSE UNCHANGED <<archive, sent>>
           /\ IF acts /\ files # {}
                THEN /\ queue' = queue \o
                            scandir({FileItem(f) : f \in files})
                     /\ unfinished_tasks' = unfinished_tasks + Cardinality(files)
                ELSE UNCHANGED <<queue, unfinished_tasks>>
    /\ UNCHANGED <<exception, n_threads, workerVars, waitVars, nextItem,
                   histVars, blacklisted_paths, blacklisted_rules, disk,
                   file_id, file_md5, remote_time, diffPc, decision, hashed,
                   storeVars, runVars, dlVars, rmVars, blVars, retryVars,
                   upPc, upFlow, upRun, gdDeleted, lateVars>>

\* create_dir's remote call raises while the folder structure is made: the
\* exception leaves upload_changes (fut.result()) or full_upload_sync.
WalkDirRaises ==
    /\ upPc = "folders"
    /\ upRun = 1
    /\ walkTodo # <<>>
    /\ ~is_blacklisted(Head(walkTodo))
    /\ yields_root("folders", Head(walkTodo))
    /\ upPc' = "raised"
    /\ UNCHANGED <<queueVars, histVars, diffVars, storeVars, runVars, dlVars,
                   rmVars, blVars, retryVars, upFlow, upRun, walkTodo,
                   visited, tested, syncTested, walkYield, sent, gdDeleted,
                   lateVars>>

\* The walk is over. After the folders: start_upload_queue and the walk for
\* the files; after the files: wait_for_queue; after a listing: the end.
WalkEnd ==
    /\ upPc \in {"folders", "files", "all"}
    /\ walkTodo = <<>>
    /\ upPc' = IF upPc = "folders" THEN "files"
               ELSE IF upPc = "all" THEN "done"
               ELSE IF upRun = 1 THEN "wait" ELSE "crawled"
    /\ walkTodo' = IF upPc = "folders" THEN scandir(sync_dirs) ELSE <<>>
    /\ UNCHANGED <<queueVars, histVars, diffVars, storeVars, runVars, dlVars,
                   rmVars, blVars, retryVars, upFlow, upRun, visited, tested,
                   syncTested, walkYield, sent, gdDeleted, lateVars>>

\* DriveUploader.wait_for_queue(q): q.join(), then n_threads sentinels.
UpWaitForQueue ==
    /\ upPc = "wait"
    /\ q_join
    /\ queue' = queue \o [k \in 1..n_threads |-> None]
    /\ unfinished_tasks' = unfinished_tasks + n_threads
    /\ upPc' = "done"
    /\ UNCHANGED <<exception, n_threads, workerVars, waitVars, nextItem,
                   histVars, diffVars, storeVars, runVars, dlVars, rmVars,
                   blVars, retryVars, upFlow, upRun, walkTodo, visited,
                   tested, syncTested, walkYield, sent, gdDeleted, lateVars>>

\* upload_queue_worker: process_queue_entry(entry) = upload_file(path): the
\* file is uploaded under the parent's id, as an update of the stored id if
\* the path has a row, and create_or_update records it.
UploadFile(w) ==
    /\ wpc[w] = "fn"
    /\ LET path == FilePaths[witem[w]]
           stored == get_stored_path_id(path)
           id == IF stored = "" THEN NewIdOf(path) ELSE stored
           row == upload_file_row(path, id)
       IN  /\ sent' = Append(sent, Sent(path))
           /\ archive' = create_or_update(path, id, row.md5sum,
                                          row.date_modified_on_disk)
    /\ wpc' = [wpc EXCEPT ![w] = "task_done"]
    /\ fnState' = [fnState EXCEPT ![witem[w]] = "returned"]
    /\ UNCHANGED <<objVars, witem, waitVars, nextItem, calls, discarded,
                   beforeCall, afterWait, failsAtRead, failures, lateCalls,
                   consumed, sentinels, raisedExc, blacklisted_paths,
                   blacklisted_rules, disk, file_id, file_md5, remote_time,
                   diffPc, decision, hashed, storeVars, runVars, dlVars,
                   rmVars, blVars, retryVars, upPc, upFlow, upRun, walkTodo,
                   visited, tested, syncTested, walkYield, gdDeleted,
                   lateVars>>

\* upload_queue_worker: the upload raises; nothing catches it, the thread
\* ends without q.task_done() for its entry.
UploadFails(w) ==
    /\ wpc[w] = "fn"
    /\ wpc' = [wpc EXCEPT ![w] = "exited"]
    /\ fnState' = [fnState EXCEPT ![witem[w]] = "raised"]
    /\ UNCHANGED <<objVars, witem, waitVars, nextItem, calls, discarded,
                   beforeCall, afterWait, failsAtRead, failures, lateCalls,
                   consumed, sentinels, raisedExc, diffVars, syncVars>>

\* A later run crawls the same sync roots: get_folders_to_sync, then
\* get_files_to_sync, with nothing changed on disk in between.
SecondCrawl ==
    /\ upPc = "done"
    /\ upRun = 1
    /\ upFlow # "list_upload_changes"
    /\ upRun' = 2
    /\ upPc' = "folders"
    /\ walkTodo' = scandir(sync_dirs)
    /\ visited' = {}
    /\ tested' = {}
    /\ syncTested' = {}
    /\ walkYield' = {}
    /\ UNCHANGED <<queueVars, histVars, diffVars, storeVars, runVars, dlVars,
                   rmVars, blVars, retryVars, upFlow, sent, gdDeleted,
                   lateVars>>

\* No upload flow is running.
UpIdle ==
    /\ upPc = "off"
    /\ upFlow = "none"
    /\ upRun = 1
    /\ walkTodo = <<>>
    /\ visited = {}
    /\ tested = {}
    /\ syncTested = {}
    /\ walkYield = {}
    /\ sent = <<>>
    /\ gdDeleted = {}

\* ============ filecrawler.py / googledrive.py: polls of the change feed

\* The objects of the remote store: the name (its characters) and the first
\* parent of each. "drive" is My Drive, "root" the configured root folder,
\* "trees" the tree-logs folder, "sib" a folder next to the root folder.
RemoteObjs ==
    [id \in {"drive", "root", "trees", "sib", "f1", "f2", "f3"} |->
        CASE id = "drive" -> [name |-> <<"M">>, parent |-> ""]
          [] id = "root" -> [name |-> <<"B">>, parent |-> "drive"]
          [] id = "trees" -> [name |-> <<"T">>, parent |-> "root"]
          [] id = "sib" -> [name |-> <<"B", "2">>, parent |-> "drive"]
          [] id = "f1" -> [name |-> <<"f">>, parent |-> "root"]
          [] id = "f2" -> [name |-> <<"f">>, parent |-> "trees"]
          [] OTHER -> [name |-> <<"f">>, parent |-> "sib"]]
\* The files whose changes the feed reports.
ChangedFiles == {"f1", "f2", "f3"}
\* modifiedTime and the stored sync time, in half seconds.
ChangeTimes == 1..(MaxTime + 1)
\* A change of the feed: the file, file.trashed and file.modifiedTime.
Changes ==
    [file : ChangedFiles, trashed : BOOLEAN, time : ChangeTimes]

\* os.path.join(a, b) on strings of characters.
path_join(a, b) ==
    IF a # <<>> /\ a[Len(a)] = "/" THEN a \o b ELSE a \o <<"/">> \o b

\* GoogleDrive.get_remote_path(file_id): the names from My Drive down to
\* the object, joined; an object without parents ends the recursion.
RECURSIVE get_remote_path(_)
get_remote_path(id) ==
    IF id = "" THEN <<"/">>
    ELSE path_join(get_remote_path(RemoteObjs[id].parent), RemoteObjs[id].name)

\* str.startswith.
startswith(str, prefix) ==
    /\ Len(prefix) <= Len(str)
    /\ SubSeq(str, 1, Len(prefix)) = prefix

\* convert_google_time_to_datetime: the fraction of the second is cut off.
convert_google_time_to_datetime(t) == (t \div 2) * 2

\* get_changes_to_download.is_valid_path: the path starts with root_path
\* and with no blacklisted remote path (the tree-logs folder's).
is_valid_path(remote_path) ==
    /\ startswith(remote_path, get_remote_path("root"))
    /\ ~startswith(remote_path, get_remote_path("trees"))

\* The body of 'for change in changes' of get_changes_to_download: whether
\* the change is yielded.
yields_change(change) ==
    /\ ~change.trashed
    /\ ~(convert_google_time_to_datetime(change.time)
           < convert_google_time_to_datetime(last_sync))
    /\ is_valid_path(get_remote_path(change.file))
    /\ is_for_download(change.file, 2,
                       convert_google_time_to_datetime(change.time)).flag
         # NEUTRAL_FLAG

\* The body of 'for change in changes' of get_last_removed.
yields_removed(change) == change.trashed

\* changes().getStartPageToken(): the position of the next change.
get_start_page_token == Len(feed) + 1

\* A change happens in the remote store.
RemoteChange(change) ==
    /\ pollPc # "off"
    /\ Len(feed) < MaxFeed
    /\ feed' = Append(feed, change)
    /\ UNCHANGED <<queueVars, histVars, diffVars, storeVars, runVars, dlVars,
                   rmVars, callVars, pollKind, pollUpdate, pollPc, pollRun,
                   stored_token, page_token, page, lastPage, listEnd,
                   pollYield, last_sync, uploaded>>

\* get_changes_to_download / get_last_removed up to the for loop: the
\* stored token, or get_start_page_token() when none is stored.
PollBegin ==
    /\ pollPc = "idle"
    /\ pollRun < MaxPolls
    /\ page_token' = IF stored_token = -1 THEN get_start_page_token
                                          ELSE stored_token
    /\ pollPc' = "fetch"
    /\ UNCHANGED <<queueVars, histVars, diffVars, storeVars, runVars, dlVars,
                   rmVars, callVars, feed, pollKind, pollUpdate, pollRun,
                   stored_token, page, lastPage, listEnd, pollYield,
                   last_sync, uploaded>>

\* get_changes: changes().list(pageToken=page_token) returns a page; the
\* page that reaches the end of the feed comes with newStartPageToken.
FetchPage ==
    /\ pollPc = "fetch"
    /\ LET last == IF page_token + PageSize - 1 < Len(feed)
                     THEN page_token + PageSize - 1 ELSE Len(feed)
       IN  /\ page' = [k \in 1..(last - page_token + 1) |-> page_token + k - 1]
           /\ lastPage' = (last = Len(feed))
           /\ page_token' = last + 1
           /\ listEnd' = IF last = Len(feed) THEN Len(feed) ELSE listEnd
    /\ pollPc' = "iterate"
    /\ UNCHANGED <<queueVars, histVars, diffVars, storeVars, runVars, dlVars,
                   rmVars, callVars, feed, pollKind, pollUpdate, pollRun,
                   stored_token, pollYield, last_sync, uploaded>>

\* 'for change in changes': the loop body looks at the next change of the
\* page and yields it or not.
PollStep ==
    /\ pollPc = "iterate"
    /\ page # <<>>
    /\ page' = Tail(page)
    /\ pollYield' =
          IF \/ pollKind = "download" /\ yields_change(feed[Head(page)])
             \/ pollKind = "removed" /\ yields_removed(feed[Head(page)])
            THEN pollYield \cup {Head(page)} ELSE pollYield
    /\ UNCHANGED <<queueVars, histVars, diffVars, storeVars, runVars, dlVars,
                   rmVars, callVars, feed, pollKind, pollUpdate, pollPc,
                   pollRun, stored_token, page_token, lastPage, listEnd,
                   last_sync, uploaded>>

\* get_changes: the page is used up; 'if "newStartPageToken" in
\* changes_request: return', otherwise the next page is asked for.
PageEnd ==
    /\ pollPc = "iterate"
    /\ page = <<>>
    /\ pollPc' = IF lastPage THEN "token" ELSE "fetch"
    /\ UNCHANGED <<queueVars, histVars, diffVars, storeVars, runVars, dlVars,
                   rmVars, callVars, feed, pollKind, pollUpdate, pollRun,
                   stored_token, page_token, page, lastPage, listEnd,
                   pollYield, last_sync, uploaded>>

\* After the loop: 'if update_token: set_last_*_change_token(
\* self.google.get_start_page_token())'.
StoreToken ==
    /\ pollPc = "token"
    /\ stored_token' = IF pollUpdate THEN get_start_page_token
                                     ELSE stored_token
    /\ pollRun' = pollRun + 1
    /\ pollPc' = "idle"
    /\ UNCHANGED <<queueVars, histVars, diffVars, storeVars, runVars, dlVars,
                   rmVars, callVars, feed, pollKind, pollUpdate, page_token,
                   page, lastPage, listEnd, pollYield, last_sync, uploaded>>

\* No poll of the change feed is modelled.
PollIdle ==
    /\ feed = <<>>
    /\ pollKind = "none"
    /\ pollUpdate = FALSE
    /\ pollPc = "off"
    /\ pollRun = 0
    /\ stored_token = -1
    /\ page_token = 0
    /\ page = <<>>
    /\ lastPage = FALSE
    /\ listEnd = 0
    /\ pollYield = {}
    /\ last_sync = 0

\* No upload is looked at next to a local writer.
LateIdle == PollIdle /\ uploaded = <<>>

\* Nothing but the queue and the download decision is running.
CallIdle == BlIdle /\ RetryIdle /\ UpIdle /\ LateIdle

SyncIdle == StoreIdle /\ TransferIdle /\ DlIdle /\ RmIdle /\ CallIdle

\* ======================================================= specifications

\* The store, the settings and the disk while only the queue is looked at.
DiffIdle ==
    /\ archive = {}
    /\ blacklisted_paths = {}
    /\ blacklisted_rules = {}
    /\ disk = [path \in PathSet |-> NoFile]
    /\ file_id = ""
    /\ file_md5 = 0
    /\ remote_time = NoTime
    /\ diffPc = "ready"
    /\ decision = NEUTRAL_FLAG
    /\ hashed = FALSE

\* The queue right after start_queue(fn, n), nothing put, no wait called.
QueueStarted(n) ==
    /\ start_queue(n)
    /\ waitPc = "idle"
    /\ stop = FALSE
    /\ waitExc = NoException
    /\ sentI = 0
    /\ nWaits = 0
    /\ nextItem = 0
    /\ calls = [i \in ItemIds |-> 0]
    /\ fnState = [i \in ItemIds |-> "none"]
    /\ discarded = {}
    /\ beforeCall = {}
    /\ afterWait = {}
    /\ failsAtRead = 0
    /\ failures = <<>>
    /\ lateCalls = {}
    /\ consumed = [w \in ThreadIds |-> 0]
    /\ sentinels = 0
    /\ raisedExc = NoException

QueueInit ==
    /\ \E n \in 1..MaxThreads : QueueStarted(n)
    /\ DiffIdle
    /\ SyncIdle

QueueNext ==
    \/ \E p \in Producers : Put(p)
    \/ \E w \in Workers : Get(w)
    \/ \E w \in Workers : SentinelDone(w)
    \/ \E w \in Workers : FnReturn(w)
    \/ \E w \in Workers : TaskDone(w)
    \/ \E w \in Workers : FnRaise(w)
    \/ \E w \in Workers : DrainGet(w)
    \/ \E w \in Workers : DrainTaskDone(w)
    \/ \E w \in Workers : FailedTaskDone(w)
    \/ \E s \in BOOLEAN : WaitCall(s)
    \/ Join
    \/ ReadException
    \/ PutSentinel
    \/ WaitFinish

\* Every interleaving of producers, workers and the caller.
QueueSpec == QueueInit /\ [][QueueNext]_vars

\* The threads are scheduled fairly and every fn call terminates: a worker
\* or the caller that can take a step eventually takes one. Producers are
\* under no obligation to put.
QueueFairSpec ==
    /\ QueueSpec
    /\ \A w \in ThreadIds : WF_vars(w \in Workers /\ _queue_worker(w))
    /\ WF_vars(wait_for_queue)

\* The runs in which no fn call raises: the queue without FnRaise (and so
\* without drain), under the same fair scheduling.
QueueNoFailNext ==
    \/ \E p \in Producers : Put(p)
    \/ \E w \in Workers : Get(w)
    \/ \E w \in Workers : SentinelDone(w)
    \/ \E w \in Workers : FnReturn(w)
    \/ \E w \in Workers : TaskDone(w)
    \/ \E s \in BOOLEAN : WaitCall(s)
    \/ Join
    \/ ReadException
    \/ PutSentinel
    \/ WaitFinish

QueueNoFailFairSpec ==
    /\ QueueInit
    /\ [][QueueNoFailNext]_vars
    /\ \A w \in ThreadIds :
          WF_vars(w \in Workers /\ (Get(w) \/ SentinelDone(w) \/ FnReturn(w)
                                      \/ TaskDone(w)))
    /\ WF_vars(wait_for_queue)

\* Every archive of at most one row, every disk, blacklist and rule set over
\* the model's paths; then one is_for_download call with every argument.
DiffInit ==
    /\ QueueStarted(1)
    /\ \/ archive = {}
       \/ \E path \in PathSet, h \in Hashes, t \in Times :
            archive = {[path |-> path, drive_id |-> "id1", md5sum |-> h,
                        date_modified_on_disk |-> t]}
    /\ blacklisted_paths \in SUBSET PathSet
    /\ blacklisted_rules \in SUBSET {"b"}
    /\ disk \in [PathSet -> {NoFile} \cup [md5 : Hashes, mtime : Times]]
    /\ file_id = ""
    /\ file_md5 = 0
    /\ remote_time = NoTime
    /\ diffPc = "ready"
    /\ decision = NEUTRAL_FLAG
    /\ hashed = FALSE
    /\ SyncIdle

DiffNext ==
    \E fid \in DriveIds, fmd5 \in Hashes, rtime \in {NoTime} \cup Times :
        IsForDownload(fid, fmd5, rtime)

DiffSpec == DiffInit /\ [][DiffNext]_vars

\* ============================================== properties of the queue

Range(seq) == {seq[k] : k \in 1..Len(seq)}
\* The last wait_for_queue call has returned to the caller without raising.
WaitReturned == nWaits > 0 /\ waitPc \in {"idle", "stopped"}
\* Item i is still on the queue, or in the hands of a worker.
Pending(i) == i \in Range(queue) \/ \E w \in Workers : witem[w] = i
AllExited == \A w \in Workers : wpc[w] = "exited"

\* C1: whenever wait_for_queue returns without raising, every item put on
\* the queue before the call was dequeued by exactly one worker's get, fn was
\* called exactly once for it and has returned, and none of these items is
\* still queued or in a worker's hands; producers may put concurrently.
C1_WaitReturnsAfterEveryItem ==
    WaitReturned =>
        \A i \in beforeCall :
            /\ calls[i] = 1
            /\ fnState[i] = "returned"
            /\ i \notin discarded
            /\ ~Pending(i)

\* A wait has returned normally after two items were put by the producers.
C1_Witness ==
    /\ WaitReturned
    /\ Cardinality(beforeCall) >= 2
    /\ n_threads >= 2

\* C2 (as claimed): once a worker's fn has raised, the wait_for_queue call
\* that is waiting on the queue raises to the caller.
C2_NextWaitRaises ==
    (failures # <<>> /\ waitPc = "join") ~> (waitPc = "raised")

\* C3 (as claimed): every wait_for_queue call eventually returns or raises.
C3_WaitTerminates ==
    (waitPc = "join") ~> (waitPc \in {"idle", "stopped", "raised"})

\* C4 (as claimed): once a worker's fn has raised, fn is never called on an
\* item dequeued afterwards.
C4_NoCallAfterFailure == lateCalls = {}

\* C5 (as claimed): the exception wait_for_queue raises is the one of the
\* failure that happened first.
C5_RaisesFirstFailure ==
    waitPc = "raised" => raisedExc = failures[1]

\* C5 (amended): every failing worker overwrites q.exception, so the queue
\* holds the latest failure, and wait_for_queue raises the failure that was
\* the most recent one when it read q.exception.
C5_RaisesLatestFailure ==
    /\ exception = (IF failures = <<>> THEN NoException
                                       ELSE failures[Len(failures)])
    /\ waitPc = "raised" =>
        /\ failsAtRead >= 1
        /\ raisedExc = failures[failsAtRead]

\* wait_for_queue raised after two failures, and not the first of them.
C5_Witness ==
    /\ waitPc = "raised"
    /\ failsAtRead >= 2
    /\ raisedExc # failures[1]

\* C6 (as claimed): at the step in which wait_for_queue raises, every worker
\* has already stopped.
C6_AllStoppedAtRaise ==
    [][(waitPc = "finish" /\ waitPc' = "raised") => AllExited]_vars

\* C6 (amended): when wait_for_queue raises a worker failure it has passed
\* the join barrier and has enqueued one sentinel per worker in that call,
\* for stop true and false alike; it has not waited for the workers.
C6_SignalledAtRaise ==
    waitPc = "raised" =>
        /\ sentI = n_threads
        /\ sentinels >= n_threads
        /\ raisedExc \in Range(failures)

\* wait_for_queue(stop=False) raised while a worker was still blocked in get.
C6_Witness ==
    /\ waitPc = "raised"
    /\ ~stop
    /\ \E w \in Workers : wpc[w] = "get"

\* C7: with no failure, wait_for_queue(stop=True) enqueues exactly n_threads
\* sentinels, all after the barrier, and every worker eventually exits having
\* consumed exactly one; wait_for_queue(stop=False) enqueues none and no
\* worker exits, an item put afterwards is eventually handed to fn, and a
\* later wait_for_queue returns only after fn returned for it.
C7_StopAndLive ==
    /\ [](failures = <<>> /\ waitPc = "stopped" => sentinels = n_threads)
    /\ [](sentinels > 0 => waitPc \in {"stopping", "finish", "stopped", "raised"})
    /\ [](\A w \in Workers : consumed[w] <= 1)
    /\ (failures = <<>> /\ waitPc = "stopped")
          ~> (failures # <<>> \/ (AllExited /\ \A w \in Workers : consumed[w] = 1))
    /\ [](failures = <<>> /\ (waitPc \in {"idle", "join", "read"} \/ ~stop)
            => sentinels = 0 /\ \A w \in Workers : wpc[w] # "exited")
    /\ (sentinels = 0 /\ \E i \in afterWait : fnState[i] = "none")
          ~> (failures # <<>> \/ \A i \in afterWait : fnState[i] # "none")
    /\ [](failures = <<>> /\ WaitReturned
            => \A i \in afterWait \cap beforeCall : fnState[i] = "returned")

\* After a wait_for_queue(stop=False), an item was put and processed, and a
\* second wait_for_queue(stop=True) stopped both workers.
C7_Witness ==
    /\ failures = <<>>
    /\ waitPc = "stopped"
    /\ nWaits >= 2
    /\ afterWait # {}
    /\ n_threads >= 2
    /\ AllExited
    /\ \A w \in Workers : consumed[w] = 1

\* ================================= properties of the download decision

\* The rows of the archive for the remote id of the call (at most one).
RowsOfCall == {row \in archive : row.drive_id = file_id}
\* The call found a row whose path is neither listed nor matched by a rule.
Tracked(row) ==
    /\ row \in RowsOfCall
    /\ row.path \notin blacklisted_paths
    /\ row.path[Len(row.path)] \notin blacklisted_rules
\* Remote, local and archived hash differ pairwise.
AllDiffer(row) ==
    /\ file_md5 # row.md5sum
    /\ file_md5 # disk[row.path].md5
    /\ disk[row.path].md5 # row.md5sum

\* C8: with no remote modification time, the decision is SAFE when the
\* remote id has no row; NONE when the row's path is blacklisted; with the
\* local file present, NONE when the remote hash equals the archived or the
\* local hash, SAFE when it differs from both and local equals archived,
\* CONFLICT when all three differ.
C8_DecisionTable ==
    (diffPc = "returned" /\ remote_time = NoTime) =>
        /\ RowsOfCall = {} => decision = SAFE_FLAG
        /\ \A row \in RowsOfCall :
            /\ ~Tracked(row) => decision = NEUTRAL_FLAG
            /\ (Tracked(row) /\ disk[row.path] # NoFile) =>
                 LET R == file_md5
                     L == disk[row.path].md5
                     A == row.md5sum
                 IN  /\ (R = A \/ R = L) => decision = NEUTRAL_FLAG
                     /\ (R # A /\ R # L /\ L = A) => decision = SAFE_FLAG
                     /\ (R # A /\ R # L /\ L # A) => decision = CONFLICT_FLAG

\* A call without remote time, on a tracked file present on disk whose
\* remote hash equals the local one only: the decision is NONE.
C8_Witness ==
    /\ diffPc = "returned"
    /\ remote_time = NoTime
    /\ \E row \in RowsOfCall :
        /\ Tracked(row)
        /\ disk[row.path] # NoFile
        /\ file_md5 = disk[row.path].md5
        /\ file_md5 # row.md5sum
    /\ decision = NEUTRAL_FLAG

C10_MissingIsConflictUnlessOlder ==
    diffPc = "returned" =>
        \A row \in RowsOfCall :
            (Tracked(row) /\ disk[row.path] = NoFile) =>
                IF remote_time # NoTime /\ remote_time < row.date_modified_on_disk
                  THEN decision = NEUTRAL_FLAG
                  ELSE decision = CONFLICT_FLAG

\* C10 (amended): a tracked file that is missing on disk is a CONFLICT for
\* every value of the remote modification time (absent, older or newer).
C10_MissingIsConflict ==
    diffPc = "returned" =>
        \A row \in RowsOfCall :
            (Tracked(row) /\ disk[row.path] = NoFile) =>
                decision = CONFLICT_FLAG

\* A missing local file and a remote time older than the row's time: the
\* decision is CONFLICT.
C10_Witness ==
    /\ diffPc = "returned"
    /\ \E row \in RowsOfCall :
        /\ Tracked(row)
        /\ disk[row.path] = NoFile
        /\ remote_time # NoTime
        /\ remote_time < row.date_modified_on_disk
    /\ decision = CONFLICT_FLAG

\* ================================================ the store under writes

\* An empty store and two threads about to record uploads and downloads.
StoreInit ==
    /\ QueueStarted(1)
    /\ DiffIdle
    /\ SyncIdle

StoreNext ==
    \/ \E w \in Racers, p \in PathSet, d \in DriveIds, h \in 1..2 :
          CallCreateOrUpdate(w, p, d, h)
    \/ \E w \in Racers : CU_Get(w)
    \/ \E w \in Racers : CU_Create(w)
    \/ \E w \in Racers : CU_Update(w)
    \/ \E w \in Racers, p \in PathSet : CallCreateDir(w, p)
    \/ \E w \in Racers : CD_Lookup(w)
    \/ \E w \in Racers : CD_RemoteCreate(w)
    \/ \E w \in Racers : GoogleDriveDB_create(w)

\* Every interleaving of the two threads' calls, any number of calls each.
StoreSpec == StoreInit /\ [][StoreNext]_vars

\* C13 (as claimed): a create_or_update call made while a row with that path
\* or with that drive_id exists succeeds, and afterwards the store holds
\* exactly one row for the path; no call ends in a uniqueness error.
C13_UpsertOnEitherKey ==
    \A w \in Racers :
        (uop[w] = "create_or_update" /\ upc[w] = "idle" /\ w \in hadRow) =>
            /\ uResult[w] = "ok"
            /\ Cardinality({row \in archive : row.path = uPath[w]}) = 1

\* C14 (as claimed): when the two threads were recording the same path at
\* the same time, both calls end without error and the store holds exactly
\* one row for that path.
C14_RacingCallsBothSucceed ==
    (raced /\ \A w \in Racers : upc[w] = "idle") =>
        /\ \A w \in Racers : uResult[w] = "ok"
        /\ Cardinality({row \in archive : row.path = uPath[1]}) = 1

\* ============================================ a run of transfers (fn)

\* Old rows of the store: item 1 was transferred before, the others never.
OldRows == {NewRow(ItemPath(1), ItemDriveId(1), 1, 1)}

\* start_queue(fn, n) with fn a transfer, over a store that holds item 1.
TransferInit ==
    /\ \E n \in 1..MaxThreads : QueueStarted(n)
    /\ archive = OldRows
    /\ archive0 = OldRows
    /\ blacklisted_paths = {}
    /\ blacklisted_rules = {}
    /\ disk = [path \in PathSet |-> NoFile]
    /\ disk0 = disk
    /\ file_id = ""
    /\ file_md5 = 0
    /\ remote_time = NoTime
    /\ diffPc = "ready"
    /\ decision = NEUTRAL_FLAG
    /\ hashed = FALSE
    /\ StoreIdle
    /\ remoteDone = {}
    /\ DlIdle
    /\ RmIdle
    /\ CallIdle

\* The queue of QueueSpec with fn(item) = remote call, then record; the
\* caller puts every item and waits with stop=True.
TransferNext ==
    \/ Put("main")
    \/ \E w \in Workers : Get(w)
    \/ \E w \in Workers : SentinelDone(w)
    \/ \E w \in Workers : RemoteCallReturn(w)
    \/ \E w \in Workers : TransferRecord(w)
    \/ \E w \in Workers : TaskDone(w)
    \/ \E w \in Workers : FnRaise(w)
    \/ \E w \in Workers : DrainGet(w)
    \/ \E w \in Workers : DrainTaskDone(w)
    \/ \E w \in Workers : FailedTaskDone(w)
    \/ WaitCall(TRUE)
    \/ Join
    \/ ReadException
    \/ PutSentinel
    \/ WaitFinish

TransferSpec == TransferInit /\ [][TransferNext]_vars

\* The rows of a store for the path of item i.
RowsOfItem(store, i) == {row \in store : row.path = ItemPath(i)}

\* C15: the row of an item differs from the one before the run only after
\* the item's remote call has returned and its fn has returned; for an item
\* whose fn raised and for every item the drain discarded, the store holds
\* exactly what it held for that item before the run.
C15_RecordOnlyAfterTransfer ==
    \A i \in ItemIds :
        /\ RowsOfItem(archive, i) # RowsOfItem(archive0, i) =>
                i \in remoteDone /\ fnState[i] = "returned"
        /\ (fnState[i] = "raised" \/ i \in discarded) =>
                RowsOfItem(archive, i) = RowsOfItem(archive0, i)

\* One item failed after its remote call had returned, another was
\* discarded by the drain, and the store equals the store before the run.
C15_Witness ==
    /\ \E i \in ItemIds : fnState[i] = "raised" /\ i \in remoteDone
    /\ discarded # {}
    /\ archive = archive0
    /\ waitPc = "raised"

\* ============================================== the two kinds of sync run

\* The crawl argument registers of DiffSpec, unused by the sync flows.
CrawlArgsIdle ==
    /\ file_id = ""
    /\ file_md5 = 0
    /\ remote_time = NoTime
    /\ diffPc = "ready"
    /\ decision = NEUTRAL_FLAG
    /\ hashed = FALSE

\* A directory, and a file with hash h, on the local disk.
Dir == [md5 |-> FOLDER_MD5, mtime |-> 1]
File(h) == [md5 |-> h, mtime |-> 1]

\* download_changes(dry_run) or full_download_sync(..., dry_run) begins:
\* start_download_queue has run; each remote file is tracked by a row or
\* not, and its local path holds nothing, the tracked content or other
\* content.
DownloadInit ==
    /\ \E n \in 1..MaxThreads : QueueStarted(n)
    /\ archive \in SUBSET {NewRow(RemoteFiles[c].path, RemoteFiles[c].id, 1, 1) :
                              c \in ChangeIds}
    /\ archive0 = archive
    /\ blacklisted_paths = {}
    /\ blacklisted_rules = {}
    /\ \E fa \in {NoFile, File(1), File(3)}, fb \in {NoFile, File(1)} :
          disk = [p \in LocalPaths |->
                    IF p = <<"sync">> THEN Dir
                    ELSE IF p = <<"sync", "a">> THEN fa
                    ELSE IF p = <<"sync", "b">> THEN fb
                    ELSE NoFile]
    /\ disk0 = disk
    /\ CrawlArgsIdle
    /\ StoreIdle
    /\ remoteDone = {}
    /\ RmIdle
    /\ CallIdle
    /\ dlPc = "crawl"
    /\ flow \in {"download_changes", "full_download_sync"}
    /\ dry_run \in BOOLEAN
    /\ poll \in {<<>>, <<1>>, <<2>>, <<1, 2>>}
    /\ sync_decision = [c \in ChangeIds |-> NEUTRAL_FLAG]
    /\ yielded = {}
    /\ conflicts = <<>>
    /\ hcIdx = 1
    /\ resolved = <<>>
    /\ rejected = <<>>
    /\ accept_all = FALSE
    /\ reject_all = FALSE
    /\ accept_all_nonconflict = FALSE
    /\ hq = ""
    /\ bulkFrom = 0
    /\ dlPath = [c \in ChangeIds |-> RemoteFiles[c].path]
    /\ enqueued = {}
    /\ download_token = "t0"
    /\ last_download_sync_time = "s0"

DownloadNext ==
    \/ CrawlStep
    \/ CrawlEnd
    \/ DlWaitForQueue
    \/ \E inp \in Inputs : HandleInput(inp)
    \/ EnqueueResolved
    \/ MarkSyncTime
    \/ \E w \in Workers : Get(w)
    \/ \E w \in Workers : SentinelDone(w)
    \/ \E w \in Workers : DownloadFile(w)
    \/ \E w \in Workers : DownloadFails(w)
    \/ \E w \in Workers : TaskDone(w)

DownloadSpec == DownloadInit /\ [][DownloadNext]_vars

\* list_removed_from_gd, blacklist_removed_from_gd or
\* remove_db_removed_from_gd begins: the folder sync/a, its file sync/a/f and
\* the file sync/b are tracked or not and exist or not; the poll reports up
\* to two removed ids.
RemovedInit ==
    /\ QueueStarted(1)
    /\ archive \in SUBSET {NewRow(<<"sync", "a">>, "id1", FOLDER_MD5, 1),
                           NewRow(<<"sync", "a", "f">>, "id3", 1, 1),
                           NewRow(<<"sync", "b">>, "id2", 1, 1),
                           NewRow(<<"sync", "a (1)">>, "id4", 1, 1)}
    /\ archive0 = archive
    /\ blacklisted_paths \in SUBSET {<<"sync", "a">>, <<"sync", "b">>}
    /\ data_blacklisted_paths = blacklisted_paths
    /\ blacklisted_rules \in SUBSET {"f"}
    /\ \E fa \in {NoFile, Dir}, ff \in {NoFile, File(1)},
          fb \in {NoFile, File(1)} :
          /\ ff # NoFile => fa = Dir
          /\ disk = [p \in LocalPaths |->
                        IF p = <<"sync">> THEN Dir
                        ELSE IF p = <<"sync", "a">> THEN fa
                        ELSE IF p = <<"sync", "a", "f">> THEN ff
                        ELSE IF p = <<"sync", "b">> THEN fb
                        ELSE NoFile]
    /\ disk0 = disk
    /\ CrawlArgsIdle
    /\ StoreIdle
    /\ remoteDone = {}
    /\ DlIdle
    /\ CallIdle
    /\ rmPc = "loop"
    /\ rmFlow \in {"list", "blacklist", "remove_db"}
    /\ removedIds \in {<<>>} \cup {<<x>> : x \in {"id1", "id2", "id3"}}
                      \cup {<<x, y>> : x, y \in {"id1", "id2", "id3"}}
    /\ reported = removedIds
    /\ processed = {}
    /\ removed_token = "r0"

RemovedNext ==
    \/ RemovedStep
    \/ RemovedStepRaises
    \/ RemovedEnd
    \/ CleanBlacklist
    \/ ExitAndReload

RemovedSpec == RemovedInit /\ [][RemovedNext]_vars

\* A run of either kind.
SyncSpec == (DownloadInit \/ RemovedInit) /\ [][DownloadNext \/ RemovedNext]_vars

\* ==================================== properties of the download flows

\* The changes listed in resolved / rejected, in list order.
ObjsOf(pairs) == [k \in 1..Len(pairs) |-> pairs[k][1]]
\* handle_download_conflicts has returned to the flow (or was not needed).
ResolverReturned == dlPc \in {"enqueue", "wait2", "mark", "done"}
\* The rows of a store that carry the path or the id of change c.
RowsOfChange(store, c) ==
    {row \in store : row.path = RemoteFiles[c].path
                        \/ row.drive_id = RemoteFiles[c].id}

BulkChoice ==
    IF accept_all THEN "y" ELSE IF reject_all THEN "n" ELSE "o"
BulkLetter ==
    IF accept_all THEN "a" ELSE IF reject_all THEN "r" ELSE "c"

\* C12, the state part: resolved and rejected partition the conflicts seen so
\* far and keep their order, so at the return len(resolved) + len(rejected) =
\* len(conflicts); after a bulk choice q is never again read from the user,
\* and the item it was typed at and all later ones get that choice.
C12_Partition ==
    /\ Len(resolved) + Len(rejected) = hcIdx - 1
    /\ ResolverReturned => Len(resolved) + Len(rejected) = Len(conflicts)
    /\ SelectSeq(SubSeq(conflicts, 1, hcIdx - 1),
                 LAMBDA c : c \in Range(ObjsOf(resolved))) = ObjsOf(resolved)
    /\ SelectSeq(SubSeq(conflicts, 1, hcIdx - 1),
                 LAMBDA c : c \in Range(ObjsOf(rejected))) = ObjsOf(rejected)
    /\ Range(ObjsOf(resolved)) \cap Range(ObjsOf(rejected)) = {}
    /\ bulkFrom # 0 => hq \in {BulkLetter, BulkChoice}
    /\ (bulkFrom # 0 /\ dlPc = "enqueue") =>
          \A k \in bulkFrom..Len(conflicts) :
              LET c == conflicts[k]
                  path == RemoteFiles[c].path
              IN  IF reject_all THEN <<c, path>> \in Range(rejected)
                  ELSE IF accept_all THEN <<c, path>> \in Range(resolved)
                  ELSE <<c, create_filename(path)>> \in Range(resolved)

\* C12: the partition above holds in every state, and a pass whose input is
\* '?' or invalid stays at the same item and changes no list and no flag.
C12_EveryConflictInOneList ==
    /\ []C12_Partition
    /\ [][(dlPc = "resolve" /\ hq' \in {"?", "x"}) =>
            /\ dlPc' = "resolve"
            /\ hcIdx' = hcIdx
            /\ resolved' = resolved
            /\ rejected' = rejected
            /\ bulkFrom' = bulkFrom]_vars

\* Two conflicts: the first accepted by hand, then 'r' typed at the second,
\* which is rejected without another prompt.
C12_Witness ==
    /\ dlPc = "enqueue"
    /\ Len(conflicts) = 2
    /\ bulkFrom = 2
    /\ reject_all
    /\ Len(resolved) = 1
    /\ Len(rejected) = 1

C18_DryRunsCommitNothing ==
    ((dlPc # "off" /\ dry_run) \/ rmFlow = "list") =>
        /\ download_token = "t0"
        /\ removed_token = "r0"
        /\ last_download_sync_time = "s0"
        /\ archive = archive0
        /\ disk = disk0
        /\ blacklisted_paths = data_blacklisted_paths
        /\ dlPc # "off" => blacklisted_paths = {}
        /\ enqueued = {}
        /\ \A k \in 1..Len(queue) : queue[k] = None
        /\ \A c \in ChangeIds : calls[c] = 0

\* A dry download_changes has finished: one change would have been
\* downloaded directly and one conflict was accepted at the prompt.
C18_Witness ==
    /\ dlPc = "done"
    /\ dry_run
    /\ flow = "download_changes"
    /\ Cardinality(yielded) = 2
    /\ Len(resolved) = 1
    /\ Len(conflicts) = 1

\* ================================ properties of the removed-items flows

\* Path p is path f or lies beneath it.
IsUnder(p, f) == Len(f) <= Len(p) /\ SubSeq(p, 1, Len(f)) = f

\* C17: the removed-items cursor is stored only after the loop has handled
\* every reported removed id: none is left to yield, no reported id has a
\* row any more and no row is left under a processed path; after a loop body
\* that raised, the stored cursor is the old one.
C17_RemovedCursorAfterProcessing ==
    /\ removed_token # "r0" =>
          /\ removedIds = <<>>
          /\ \A k \in 1..Len(reported) :
                GoogleDriveDB_get("drive_id", reported[k]) = NoEntry
          /\ \A row \in archive0 :
                row.drive_id \in Range(reported) =>
                    \E f \in processed : IsUnder(row.path, f)
          /\ \A f \in processed, row \in archive : ~IsUnder(row.path, f)
    /\ rmPc = "raised" => removed_token = "r0"

\* The cursor was stored after two removed ids were processed.
C17_Witness ==
    /\ removed_token = "r1"
    /\ Cardinality(processed) = 2
    /\ Len(reported) = 2

\* C19: once the removed-items flow has processed a removed id whose row
\* has path F, no row is left whose path is F or starts with F.
C19_SubtreeCascade ==
    \A f \in processed : \A row \in archive : ~IsUnder(row.path, f)

\* The folder sync/a was processed while its file sync/a/f had a row.
C19_Witness ==
    /\ <<"sync", "a">> \in processed
    /\ \E row \in archive0 : row.path = <<"sync", "a", "f">>
    /\ rmFlow \in {"blacklist", "remove_db"}
    /\ rmPc = "done"

\* C20 (as claimed): once the removed-items flow has processed a removed id
\* whose row path P exists on disk, no walk of a sync root, in this run or
\* in a later run that reloads the blacklist, yields P or a path beneath P.
C20_NeverWalkedAgain ==
    \A f \in processed :
        exists(f) =>
            \A root \in sync_dirs :
                \A p \in get_all_paths_to_sync(root) : ~IsUnder(p, f)

\* C36: every row the removed-items flow has deleted had the path of a
\* processed removed row or a path beneath it; a sibling whose name extends
\* the removed name keeps its row.
C36_OnlySubtreeDeleted ==
    \A row \in archive0 \ archive :
        \E f \in processed : IsUnder(row.path, f)

\* ====================================== calls on the blacklist, retries

\* One call of Settings.is_blacklisted or Settings.is_blacklisted_parent,
\* over every blacklist and rule set of the model's paths.
BlacklistInit ==
    /\ QueueStarted(1)
    /\ archive = {}
    /\ blacklisted_paths \in SUBSET BlPaths
    /\ blacklisted_rules \in SUBSET {"a", "f"}
    /\ disk = [p \in LocalPaths |-> NoFile]
    /\ CrawlArgsIdle
    /\ StoreIdle
    /\ TransferIdle
    /\ DlIdle
    /\ RmIdle
    /\ RetryIdle
    /\ UpIdle
    /\ LateIdle
    /\ bpOp \in {"is_blacklisted", "is_blacklisted_parent"}
    /\ bpPath \in BlPaths
    /\ bpStop \in StopSets
    /\ bpCur = bpPath
    /\ bpDepth = 0
    /\ bpPc = "ready"
    /\ bpResult = FALSE

BlacklistNext ==
    \/ IsBlacklisted
    \/ IsBlacklistedParent

BlacklistSpec == BlacklistInit /\ [][BlacklistNext]_vars

\* The call is the only thread: it keeps running until it returns.
BlacklistFairSpec == BlacklistSpec /\ WF_vars(BlacklistNext)

\* One call through handle_http_error(silent, ignore), then calls of
\* GoogleDrive.delete on a remote store that holds id1 or nothing.
RetryInit ==
    /\ QueueStarted(1)
    /\ DiffIdle
    /\ StoreIdle
    /\ TransferIdle
    /\ DlIdle
    /\ RmIdle
    /\ BlIdle
    /\ UpIdle
    /\ LateIdle
    /\ rtPc = "loop"
    /\ attempt = 1
    /\ invocations = 0
    /\ errors = <<>>
    /\ slept = <<>>
    /\ rtResult = "none"
    /\ raisedError = 0
    /\ silent \in BOOLEAN
    /\ ignore \in BOOLEAN
    /\ gdFiles \in SUBSET {"id1"}
    /\ deletes = <<>>

RetryNext ==
    \/ \E status \in HttpStatuses : Attempt(status)
    \/ RetriesExhausted
    \/ \E status \in HttpStatuses : GoogleDrive_delete("id1", status)

RetrySpec == RetryInit /\ [][RetryNext]_vars

\* ==================================== properties of the blacklist calls

\* The first k components of a path: the path itself and its ancestors.
Prefix(p, k) == SubSeq(p, 1, k)

\* C25: for every path p with a blacklisted ancestor a that is not a
\* configured sync root, Settings.is_blacklisted(p) returns true.
C25_BlacklistClosure ==
    (/\ bpOp = "is_blacklisted"
     /\ bpPc = "returned"
     /\ \E k \in 0..(Len(bpPath) - 1) :
            /\ is_blacklisted(Prefix(bpPath, k))
            /\ Prefix(bpPath, k) \notin sync_dirs)
    => bpResult

\* Walking from p toward the root, a directly blacklisted path is met
\* before any member of stopAt.
BlacklistedBeforeStop(p, stopAt) ==
    \E k \in 0..Len(p) :
        /\ is_blacklisted(Prefix(p, k))
        /\ \A j \in k..Len(p) : Prefix(p, j) \notin stopAt

\* C26: Settings.is_blacklisted_parent(path, stop) always returns; it
\* returns true exactly when a directly blacklisted path is met on the way
\* to the root before a member of stop, and it returns at the first path
\* that is in stop (blacklisted or not), is blacklisted, or is the root.
C26_ParentWalk ==
    /\ [](bpOp = "is_blacklisted_parent" /\ bpPc = "returned" =>
            /\ bpResult = BlacklistedBeforeStop(bpPath, bpStop)
            /\ bpCur = Prefix(bpPath, Len(bpPath) - bpDepth)
            /\ \A j \in (Len(bpCur) + 1)..Len(bpPath) :
                  /\ Prefix(bpPath, j) \notin bpStop
                  /\ ~is_blacklisted(Prefix(bpPath, j))
            /\ (bpCur \in bpStop => ~bpResult))
    /\ (bpOp = "is_blacklisted_parent" ~> bpPc = "returned")

\* The call went up one level or more and stopped, returning false, at a
\* member of stop that is itself blacklisted.
C26_Witness ==
    /\ bpOp = "is_blacklisted_parent"
    /\ bpPc = "returned"
    /\ bpDepth >= 1
    /\ bpCur \in bpStop
    /\ is_blacklisted(bpCur)
    /\ ~bpResult

\* =========================================== properties of the retries

IsTransient(seq) == \A k \in 1..Len(seq) : seq[k] \in RETRYABLE_HTTP_ERROR_CODES

\* C27: while the wrapped call keeps failing with 403 or 500 (silent and
\* ignore False) it is invoked at most NUM_RETRIES times, the k-th failure
\* is followed by a sleep of 2^k seconds (each twice the one before), and
\* after the last attempt the last error is raised to the caller.
C27_TransientRetries ==
    (rtPc # "off" /\ ~silent /\ ~ignore /\ IsTransient(errors)) =>
        /\ invocations <= NUM_RETRIES
        /\ Len(slept) = Len(errors)
        /\ \A k \in 1..Len(slept) :
              slept[k] = IF k = 1 THEN 2 ELSE 2 * slept[k - 1]
        /\ rtResult # "None"
        /\ (rtPc = "raised" =>
              /\ invocations = NUM_RETRIES
              /\ raisedError = errors[NUM_RETRIES])
        /\ (rtPc = "returned" => rtResult = "value")

\* Six attempts failed with both transient statuses and the last error was
\* raised.
C27_Witness ==
    /\ rtPc = "raised"
    /\ ~silent /\ ~ignore
    /\ IsTransient(errors)
    /\ 403 \in {errors[k] : k \in 1..Len(errors)}
    /\ raisedError = 500
    /\ Len(slept) = NUM_RETRIES

\* C28: an HttpError that is neither 403/500 nor 404 propagates at once:
\* the wrapped call is invoked exactly once and the error is raised.
C28_FatalPropagates ==
    (rtPc # "off" /\ ~ignore /\ errors # <<>> /\ errors[1] = 400) =>
        /\ invocations = 1
        /\ rtResult \in {"none", "raised"}

\* The state of the remote store after the k-th delete.
AfterDelete(k) == IF k = Len(deletes) THEN gdFiles ELSE deletes[k + 1].before

\* C29: on HTTP 404 handle_http_error returns None at once, with no sleep
\* and no further invocation; GoogleDrive.delete of an absent id returns
\* without error and changes nothing, so a second delete of an id leaves
\* what the first left.
C29_NotFoundIsSatisfied ==
    /\ (rtPc # "off" /\ errors # <<>> /\ errors[Len(errors)] = 404) =>
          /\ rtPc = "returned"
          /\ rtResult = "None"
          /\ invocations = Len(errors)
          /\ Len(slept) = Cardinality({k \in 1..(Len(errors) - 1) :
                               errors[k] \in RETRYABLE_HTTP_ERROR_CODES})
    /\ \A k \in 1..Len(deletes) :
          /\ deletes[k].id \notin deletes[k].before
             /\ deletes[k].status = 404
                => ~deletes[k].raised /\ AfterDelete(k) = deletes[k].before
          /\ (k > 1 /\ deletes[k - 1].id = deletes[k].id
              /\ ~deletes[k - 1].raised /\ ~deletes[k].raised)
                => AfterDelete(k) = AfterDelete(k - 1)

\* A 404 after one retry returned None, and id1 was deleted twice: the
\* first call removed it, the second was answered 404.
C29_Witness ==
    /\ errors = <<403, 404>>
    /\ rtResult = "None"
    /\ Len(deletes) = 2
    /\ deletes[1].status = 200
    /\ deletes[2].status = 404

\* =================================================== the upload flows

\* A file on the local disk, last modified at time t.
FileAt(t) == [md5 |-> 1, mtime |-> t]

\* list_upload_changes, upload_changes or mirror(sync root, fast=True)
\* begins (dry_run False): the sync root, the folder sync/a, its file
\* sync/a/f and the file sync/b are tracked or not; the files exist or not,
\* as old as their rows or newer; the root or sync/a may be blacklisted and
\* a rule may match sync/b. start_upload_queue's workers are waiting.
UploadInit ==
    /\ \E n \in 1..MaxThreads : QueueStarted(n)
    /\ archive \in SUBSET {NewRow(<<"sync">>, "id0", FOLDER_MD5, 1),
                           NewRow(<<"sync", "a">>, "id1", FOLDER_MD5, 1),
                           NewRow(<<"sync", "a", "f">>, "id3", 1, 1),
                           NewRow(<<"sync", "b">>, "id2", 1, 1)}
    /\ archive0 = archive
    /\ blacklisted_paths \in SUBSET {<<"sync">>, <<"sync", "a">>}
    /\ blacklisted_rules \in SUBSET {"b"}
    /\ \E fa \in {NoFile, Dir},
          ff \in {NoFile} \cup {FileAt(t) : t \in Times},
          fb \in {NoFile} \cup {FileAt(t) : t \in Times} :
          /\ ff # NoFile => fa = Dir
          /\ disk = [p \in LocalPaths |->
                        IF p = <<"sync">> THEN Dir
                        ELSE IF p = <<"sync", "a">> THEN fa
                        ELSE IF p = <<"sync", "a", "f">> THEN ff
                        ELSE IF p = <<"sync", "b">> THEN fb
                        ELSE NoFile]
    /\ disk0 = disk
    /\ CrawlArgsIdle
    /\ StoreIdle
    /\ remoteDone = {}
    /\ DlIdle
    /\ RmIdle
    /\ BlIdle
    /\ RetryIdle
    /\ LateIdle
    /\ upFlow \in {"list_upload_changes", "upload_changes", "mirror"}
    /\ upFlow = "list_upload_changes" => n_threads = 1
    /\ upPc = IF upFlow = "list_upload_changes" THEN "all"
              ELSE IF upFlow = "mirror" THEN "begin" ELSE "folders"
    /\ upRun = 1
    /\ walkTodo = scandir(sync_dirs)
    /\ visited = {}
    /\ tested = {}
    /\ syncTested = {}
    /\ walkYield = {}
    /\ sent = <<>>
    /\ gdDeleted = {}

UploadNext ==
    \/ MirrorBegin
    \/ WalkDir
    \/ WalkDirRaises
    \/ WalkEnd
    \/ UpWaitForQueue
    \/ SecondCrawl
    \/ \E w \in Workers : Get(w)
    \/ \E w \in Workers : SentinelDone(w)
    \/ \E w \in Workers : UploadFile(w)
    \/ \E w \in Workers : UploadFails(w)
    \/ \E w \in Workers : TaskDone(w)

UploadSpec == UploadInit /\ [][UploadNext]_vars

\* A run of any sync operation: an upload, a download or a removed-items
\* flow.
AllSyncNext ==
    \/ upPc # "off" /\ UploadNext
    \/ dlPc # "off" /\ DownloadNext
    \/ rmPc # "off" /\ RemovedNext

AllSyncSpec ==
    (UploadInit \/ DownloadInit \/ RemovedInit) /\ [][AllSyncNext]_vars

\* A poll of the change feed begins: get_changes_to_download(root_path=None,
\* update_token) or get_last_removed(update_token), with a token stored by
\* an earlier poll or none, while the remote store goes on changing. The
\* file f1 is tracked by a row with the remote content, or untracked.
PollInit ==
    /\ QueueStarted(1)
    /\ archive \in {{}, {NewRow(<<"sync", "a">>, "f1", 2, 1)}}
    /\ archive0 = archive
    /\ blacklisted_paths = {}
    /\ blacklisted_rules = {}
    /\ disk = [p \in LocalPaths |->
                  IF p = <<"sync">> THEN Dir
                  ELSE IF p = <<"sync", "a">> THEN File(2)
                  ELSE NoFile]
    /\ disk0 = disk
    /\ CrawlArgsIdle
    /\ StoreIdle
    /\ remoteDone = {}
    /\ DlIdle
    /\ RmIdle
    /\ BlIdle
    /\ RetryIdle
    /\ UpIdle
    /\ uploaded = <<>>
    /\ feed = <<>>
    /\ pollKind \in {"download", "removed"}
    /\ pollUpdate \in BOOLEAN
    /\ pollPc = "idle"
    /\ pollRun = 0
    /\ stored_token \in {-1, 1}
    /\ page_token = 0
    /\ page = <<>>
    /\ lastPage = FALSE
    /\ listEnd = 0
    /\ pollYield = {}
    /\ last_sync \in {2, 3}

PollNext ==
    \/ \E change \in Changes : RemoteChange(change)
    \/ PollBegin
    \/ FetchPage
    \/ PollStep
    \/ PageEnd
    \/ StoreToken

PollSpec == PollInit /\ [][PollNext]_vars

\* ======================================= properties of the change polls

\* The remote object id lies beneath the folder anc.
RECURSIVE IsDescendant(_, _)
IsDescendant(id, anc) ==
    /\ id # ""
    /\ \/ RemoteObjs[id].parent = anc
       \/ IsDescendant(RemoteObjs[id].parent, anc)

\* C31: every change get_changes_to_download yields is of an object beneath
\* the root folder and not beneath the tree-logs folder, is not trashed, and
\* was modified no earlier than the last download sync time.
C31_YieldedUnderRoot ==
    pollKind = "download" =>
        \A k \in pollYield :
            /\ IsDescendant(feed[k].file, "root")
            /\ ~IsDescendant(feed[k].file, "trees")
            /\ ~feed[k].trashed
            /\ feed[k].time >= last_sync

\* C37: after a poll with update_token = True has completed, the stored
\* cursor lies no further than the end of what the poll's listing read, so
\* that every change made after the listing was read is at or after the
\* cursor and is listed by the next poll.
C37_CursorLosesNoChange ==
    (pollUpdate /\ pollRun > 0) => stored_token <= listEnd + 1

\* ======================================= properties of the upload flows

\* C21: no step of a sync operation takes a file or directory away from the
\* local disk, and a step of a removed-items flow leaves the local disk as
\* it is (it changes the blacklist and the store only).
C21_NoLocalDelete ==
    [][/\ \A p \in DOMAIN disk : disk[p] # NoFile => disk'[p] # NoFile
       /\ rmPc # "off" => disk' = disk]_vars

\* A removed-items flow has processed the row of a path that is still on
\* the local disk.
C21_Witness ==
    /\ rmPc = "done"
    /\ \E p \in processed : exists(p)
    /\ disk = disk0

\* C22: in the crawl of a second run, after a first upload run whose
\* transfers all succeeded and with the disk unchanged, get_folders_to_sync
\* and get_files_to_sync yield no path.
C22_SecondCrawlYieldsNothing == upRun = 2 => walkYield = {}

\* The first run created the sync root and uploaded sync/a/f; the second
\* crawl has walked the tree to its end.
C22_Witness ==
    /\ upPc = "crawled"
    /\ \E k \in 1..Len(sent) : sent[k].path = <<"sync">>
    /\ \E k \in 1..Len(sent) : sent[k].path = <<"sync", "a", "f">>
    /\ <<"sync", "a">> \in visited

\* The claim's condition: no row for the path, or a file strictly newer on
\* disk than its row.
NeedsUpload(p) ==
    \/ \A row \in archive : row.path # p
    \/ /\ disk[p].md5 # FOLDER_MD5
       /\ \E row \in archive :
            row.path = p /\ disk[p].mtime > row.date_modified_on_disk

\* C23: every path is_for_sync is called with is yielded exactly when it
\* has no row or is a file strictly newer than its row; a directory with a
\* row is not yielded, but the walk goes on into its directories and yields
\* the files in it that need an upload.
C23_IsForSync ==
    [][/\ \A p \in syncTested' \ syncTested :
            p \in walkYield' <=> NeedsUpload(p)
       /\ (walkTodo # <<>> /\ walkTodo' # walkTodo
           /\ ~is_blacklisted(Head(walkTodo))
           /\ GoogleDriveDB_get("path", Head(walkTodo)) # NoEntry) =>
            /\ Head(walkTodo) \notin walkYield' \ walkYield
            /\ \A p \in listdir(Head(walkTodo)) :
                  /\ isdir(p) => \E k \in 1..Len(walkTodo') : walkTodo'[k] = p
                  /\ (~isdir(p) /\ walk_kind # "folders"
                      /\ ~is_blacklisted(p) /\ NeedsUpload(p))
                        => p \in walkYield']_vars

\* The walk went through the tracked folder sync/a without yielding it and
\* yielded its tracked file, which is newer on disk than its row.
C23_Witness ==
    /\ <<"sync", "a">> \in visited \ walkYield
    /\ GoogleDriveDB_get("path", <<"sync", "a">>) # NoEntry
    /\ <<"sync", "a", "f">> \in walkYield
    /\ GoogleDriveDB_get("path", <<"sync", "a", "f">>) # NoEntry
    /\ date_modified(<<"sync", "a", "f">>) >
         GoogleDriveDB_get("path", <<"sync", "a", "f">>).date_modified_on_disk

\* C24: a blacklisted directory the walk comes to is not yielded, and no
\* path beneath it is yielded, visited, waiting to be visited, or tested by
\* is_blacklisted or is_for_sync.
C24_ExcludedPruned ==
    \A d \in visited :
        is_blacklisted(d) =>
            /\ d \notin walkYield \cup syncTested
            /\ \A p \in LocalPaths :
                  (IsUnder(p, d) /\ p # d) =>
                      /\ p \notin walkYield \cup visited \cup tested
                                   \cup syncTested
                      /\ \A k \in 1..Len(walkTodo) : walkTodo[k] # p

\* The walks are over; they came to a blacklisted directory that holds a
\* directory and, in it, a file with no row.
C24_Witness ==
    /\ upPc \in {"done", "crawled"}
    /\ \E d \in visited :
          /\ is_blacklisted(d)
          /\ \E p, f \in LocalPaths :
                /\ parent_dir(p) = d /\ isdir(p)
                /\ parent_dir(f) = p /\ exists(f) /\ NeedsUpload(f)

\* The paths sent to the remote store, in order.
SentPaths == [k \in 1..Len(sent) |-> sent[k].path]

C34_NoHashWhenResolved ==
    diffPc = "returned" =>
        LET entry == GoogleDriveDB_get("drive_id", file_id) IN
        (entry = NoEntry \/ entry.md5sum = file_md5) => ~hashed

\* wait_for_queue of an upload or download queue is inside q.join() with
\* tasks unfinished, nothing queued and no thread working on an entry.
TransferWaitBlocked ==
    /\ upPc = "wait" \/ dlPc \in {"wait1", "wait2"}
    /\ unfinished_tasks > 0
    /\ queue = <<>>
    /\ \A w \in Workers : wpc[w] \in {"get", "exited"}

\* C35: wait_for_queue of an upload or download queue is never left blocked
\* in q.join(), also when the processing of an entry raised.
C35_TransferQueueNeverHangs == ~TransferWaitBlocked

\* The files of the synced tree that had no row when the run began.
NewFiles ==
    {f \in {FilePaths[i] : i \in 1..Len(FilePaths)} :
        exists(f) /\ \A row \in archive0 : row.path # f}

\* C33: a file without a row that the walk comes to (its directory is
\* visited, neither is blacklisted) is yielded, and once its upload has
\* returned exactly one row has its path, with the id of the upload
\* response and the file's hash on disk.
C33_NewFileRecorded ==
    \A f \in NewFiles :
        /\ (/\ upRun = 1
            /\ upPc \in {"wait", "done"}
            /\ parent_dir(f) \in visited
            /\ ~is_blacklisted(parent_dir(f))
            /\ ~is_blacklisted(f)) => f \in walkYield
        /\ fnState[FileItem(f)] = "returned" =>
              /\ Cardinality({row \in archive : row.path = f}) = 1
              /\ \A row \in archive :
                    row.path = f => /\ row.drive_id = NewIdOf(f)
                                    /\ row.md5sum = md5sum(f)

\* upload_changes is over: the untracked file sync/a/f was yielded and
\* uploaded, and its row is in the store.
C33_Witness ==
    /\ upFlow = "upload_changes"
    /\ upPc = "done"
    /\ <<"sync", "a", "f">> \in NewFiles \cap walkYield
    /\ fnState[FileItem(<<"sync", "a", "f">>)] = "returned"
    /\ \E row \in archive : row.path = <<"sync", "a", "f">>

\* ====================================== the resolver and taken filenames

\* download_changes or full_download_sync begins with two changed remote
\* files whose local destinations are the same path or two paths (remote
\* objects of one name in one folder share a destination); names that
\* create_filename would make up may be taken on the disk.
ResolveInit ==
    /\ \E n \in 1..MaxThreads : QueueStarted(n)
    /\ archive \in SUBSET {NewRow(<<"sync", "a">>, "id1", 1, 1)}
    /\ archive0 = archive
    /\ blacklisted_paths = {}
    /\ blacklisted_rules = {}
    /\ \E fa \in {NoFile, File(1), File(3)}, fa1 \in {NoFile, File(1)},
          fb \in {NoFile, File(1)} :
          disk = [p \in LocalPaths |->
                    IF p = <<"sync">> THEN Dir
                    ELSE IF p = <<"sync", "a">> THEN fa
                    ELSE IF p = <<"sync", "a (1)">> THEN fa1
                    ELSE IF p = <<"sync", "b">> THEN fb
                    ELSE NoFile]
    /\ disk0 = disk
    /\ CrawlArgsIdle
    /\ StoreIdle
    /\ remoteDone = {}
    /\ RmIdle
    /\ CallIdle
    /\ dlPc = "crawl"
    /\ flow \in {"download_changes", "full_download_sync"}
    /\ dry_run = FALSE
    /\ poll \in {<<1>>, <<1, 2>>}
    /\ sync_decision = [c \in ChangeIds |-> NEUTRAL_FLAG]
    /\ yielded = {}
    /\ conflicts = <<>>
    /\ hcIdx = 1
    /\ resolved = <<>>
    /\ rejected = <<>>
    /\ accept_all = FALSE
    /\ reject_all = FALSE
    /\ accept_all_nonconflict = FALSE
    /\ hq = ""
    /\ bulkFrom = 0
    /\ \E p2 \in {<<"sync", "a">>, <<"sync", "b">>} :
          dlPath = [c \in ChangeIds |-> IF c = 1 THEN <<"sync", "a">> ELSE p2]
    /\ enqueued = {}
    /\ download_token = "t0"
    /\ last_download_sync_time = "s0"

ResolveSpec == ResolveInit /\ [][DownloadNext]_vars

\* The destinations get_dl_path gave, before any renaming.
Destinations == {<<"sync", "a">>, <<"sync", "b">>}
\* Entry k of 'resolved' carries a name create_filename made up.
Renamed(k) == resolved[k][2] \notin Destinations

\* C32 as stated: the path an item resolved with o (or bulk c) gets does not
\* exist at that moment, differs from the item's destination, and is the
\* destination's name with the smallest free index appended; the download
\* of a renamed item leaves the files at the destinations as they are.
C32_RenameIsFreshSuffix ==
    [][/\ (dlPc = "resolve" /\ hq' = "o"
           /\ Len(resolved') = Len(resolved) + 1) =>
            LET path == dlPath[conflicts[hcIdx]]
                dest == resolved'[Len(resolved')][2]
            IN  /\ ~exists(dest)
                /\ dest # path
                /\ \E k \in 1..Cardinality(LocalPaths) :
                      /\ dest = indexed_filename(path, k)
                      /\ \A j \in 1..(k - 1) :
                            exists(indexed_filename(path, j))
       /\ \A c \in ChangeIds :
            (fnState[c] = "none" /\ fnState'[c] = "returned"
             /\ dlPath[c] \notin Destinations) =>
                \A p \in Destinations : disk'[p] = disk[p]]_vars

\* C32 amended: the same when the destination exists; when nothing is at
\* the destination, the item gets the destination itself, without an index.
C32_RenameIsFreshSuffixIfTaken ==
    [][/\ (dlPc = "resolve" /\ hq' = "o"
           /\ Len(resolved') = Len(resolved) + 1) =>
            LET path == dlPath[conflicts[hcIdx]]
                dest == resolved'[Len(resolved')][2]
            IN  /\ ~exists(dest)
                /\ IF exists(path)
                     THEN /\ dest # path
                          /\ \E k \in 1..Cardinality(LocalPaths) :
                                /\ dest = indexed_filename(path, k)
                                /\ \A j \in 1..(k - 1) :
                                      exists(indexed_filename(path, j))
                     ELSE dest = path
       /\ \A c \in ChangeIds :
            (fnState[c] = "none" /\ fnState'[c] = "returned"
             /\ dlPath[c] \notin Destinations) =>
                \A p \in Destinations : disk'[p] = disk[p]]_vars

\* An item whose destination sync/a and its first indexed name were taken
\* was resolved to 'a (2)' and downloaded there; sync/a is as it was.
C32_Witness ==
    /\ \E k \in 1..Len(resolved) :
          /\ resolved[k][2] = <<"sync", "a (2)">>
          /\ fnState[resolved[k][1]] = "returned"
    /\ disk[<<"sync", "a (2)">>] # NoFile
    /\ disk0[<<"sync", "a">>] # NoFile
    /\ disk[<<"sync", "a">>] = disk0[<<"sync", "a">>]

\* C38: two entries of 'resolved' of which one was renamed never carry the
\* same path.
C38_RenamedDistinct ==
    \A j, k \in 1..Len(resolved) :
        (j < k /\ (Renamed(j) \/ Renamed(k)))
            => resolved[j][2] # resolved[k][2]

UploadFileSend(path) ==
    /\ Len(uploaded) < MaxUploads
    /\ exists(path)
    /\ ~isdir(path)
    /\ \A k \in 1..Len(uploaded) :
          uploaded[k].path = path => uploaded[k].recorded
    /\ LET stored == get_stored_path_id(path) IN
       uploaded' = Append(uploaded,
            [path |-> path, md5 |-> md5sum(path),
             id |-> IF stored = "" THEN NewIdOf(path) ELSE stored,
             recorded |-> FALSE])
    /\ sent' = Append(sent, Sent(path))
    /\ UNCHANGED <<queueVars, histVars, archive, blacklisted_paths,
                   blacklisted_rules, disk, file_id, file_md5, remote_time,
                   diffPc, decision, hashed, storeVars, runVars, dlVars,
                   rmVars, blVars, retryVars, upPc, upFlow, upRun, walkTodo,
                   visited, tested, syncTested, walkYield, gdDeleted,
                   pollVars>>

\* DBDriveUploader.upload_file, second half: after the remote call has
\* returned, create_or_update records ft.date_modified(entry) and
\* ft.md5sum(entry), both read from the disk now.
UploadFileRecord(k) ==
    /\ ~uploaded[k].recorded
    /\ LET row == upload_file_row(uploaded[k].path, uploaded[k].id)
       IN  archive' = create_or_update(row.path, row.drive_id, row.md5sum,
                                       row.date_modified_on_disk)
    /\ uploaded' = [uploaded EXCEPT ![k].recorded = TRUE]
    /\ UNCHANGED <<queueVars, histVars, blacklisted_paths, blacklisted_rules,
                   disk, file_id, file_md5, remote_time, diffPc, decision,
                   hashed, storeVars, runVars, dlVars, rmVars, callVars,
                   pollVars>>

\* Another program writes new content to a local file; the modification time
\* of the file moves on.
LocalWrite(path, h) ==
    /\ exists(path)
    /\ ~isdir(path)
    /\ h # md5sum(path)
    /\ date_modified(path) <= MaxTime
    /\ disk' = [disk EXCEPT ![path] = [md5 |-> h, mtime |-> @.mtime + 1]]
    /\ UNCHANGED <<queueVars, histVars, archive, blacklisted_paths,
                   blacklisted_rules, file_id, file_md5, remote_time, diffPc,
                   decision, hashed, storeVars, runVars, dlVars, rmVars,
                   callVars, lateVars>>

\* The files of a synced tree, of which sync/a may have a row from an
\* earlier run; no flow of the program is running besides the uploads.
RaceInit ==
    /\ QueueStarted(1)
    /\ archive \in SUBSET {NewRow(<<"sync", "a">>, "id1", 1, 1)}
    /\ archive0 = archive
    /\ blacklisted_paths = {}
    /\ blacklisted_rules = {}
    /\ \E fa \in {File(1), File(2)}, fb \in {NoFile, File(1)} :
          disk = [p \in LocalPaths |->
                    IF p = <<"sync">> THEN Dir
                    ELSE IF p = <<"sync", "a">> THEN fa
                    ELSE IF p = <<"sync", "b">> THEN fb
                    ELSE NoFile]
    /\ disk0 = disk
    /\ CrawlArgsIdle
    /\ StoreIdle
    /\ remoteDone = {}
    /\ DlIdle
    /\ RmIdle
    /\ CallIdle

RaceNext ==
    \/ \E path \in {<<"sync", "a">>, <<"sync", "b">>} : UploadFileSend(path)
    \/ \E k \in 1..Len(uploaded) : UploadFileRecord(k)
    \/ \E path \in {<<"sync", "a">>, <<"sync", "b">>}, h \in 1..NumHashes :
          LocalWrite(path, h)

RaceSpec == RaceInit /\ [][RaceNext]_vars

\* C40: once the latest upload_file call on a path has returned, the row of
\* the path carries the checksum of the content that was sent, and a file
\* whose content differs from what was sent is for sync.
C40_NoLostLocalUpdate ==
    \A k \in 1..Len(uploaded) :
        LET u == uploaded[k]
            row == GoogleDriveDB_get("path", u.path)
        IN  (u.recorded /\ \A j \in (k + 1)..Len(uploaded) :
                                uploaded[j].path # u.path) =>
                /\ row # NoEntry
                /\ row.md5sum = u.md5
                /\ md5sum(u.path) # u.md5 => is_for_sync(u.path)

TypeOK ==
    /\ unfinished_tasks \in 0..(MaxItems + MaxWaits * MaxThreads)
    /\ n_threads \in 1..MaxThreads
    /\ waitPc \in {"idle", "join", "read", "stopping", "finish", "stopped", "raised"}
    /\ decision \in {CONFLICT_FLAG, NEUTRAL_FLAG, SAFE_FLAG}
====
